---- MODULE Spec2Model ----
(***************************************************************************)
(* Two-tier cache (IntelligentCache) and context assembly (buildContext)   *)
(* of claw-tribe, modelled as a state machine over Node's event loop.      *)
(*                                                                         *)
(* Every await in the source is a point where another task may run, so an  *)
(* async function is split into one action per stretch of synchronous      *)
(* code.  Disk I/O acts on the shared file at the instant its action       *)
(* fires.  Time is counted in whole minutes (the TTL tables are in         *)
(* minutes); the 2 s debounce is below that resolution, so an armed timer  *)
(* may fire at any later point.                                            *)
(***************************************************************************)
EXTENDS Integers, Sequences, FiniteSets, TLC

\* ------------------------------------------------------------------------
\* Bounds of the exploration
\* ------------------------------------------------------------------------
MaxTime == 5
\* calls made from outside in one run: set, get, invalidate of the cache;
\* buildContext, invalidateCache, tool executions and sync runs
MaxCalls == 3

\* ------------------------------------------------------------------------
\* Constants of intelligent-cache
\* ------------------------------------------------------------------------
CacheNamespace == {"kb", "sessions", "search"}

\* TTLs per namespace, in minutes
L1_TTLS == [kb |-> 10, sessions |-> 1, search |-> 5]

\* a persisted tier that expires before the fast tier
L2_TTLS_shorter == [kb |-> 5, sessions |-> 0, search |-> 2]

L2_TTLS == [kb |-> 30, sessions |-> 5, search |-> 15]

\* the cache clients (IntelligentCache instances) that may share the disk
Instances == {"A", "B"}

\* raw keys handed to the cache by its callers; the value a caller stores is
\* the number of its call, so that every set stores a value of its own
RawKeys == {"x", "y"}

\* the (namespace, raw key) pairs the callers of the model use
Inputs == {<<"kb", "x">>, <<"kb", "y">>, <<"sessions", "x">>}

TtlInputs == {<<"sessions", "x">>}

\* two clients of one namespace with a key each
SharedInputs == {<<"kb", "x">>, <<"kb", "y">>}

\* md5 of a raw key (hex digest), injective on RawKeys
md5 == [x |-> "9dd4", y |-> "4152"]

Hashes == {md5[k] : k \in RawKeys}

cacheKey(namespace, key) == <<namespace, md5[key]>>

CacheKeys == CacheNamespace \X Hashes

\* a prefix test that every key passes
startsWith_any(ck, namespace) == ck[1] \in CacheNamespace

\* key.startsWith(`${namespace}:`)
startsWith(ck, namespace) == ck[1] = namespace

\* a slot of a Map / Record that holds nothing
NoEntry == [value |-> 0, expiresAt |-> 0]

undefined == 0

Present(entry) == entry # NoEntry

\* contents of the file diskPath(namespace), as JSON.parse would see them
NoEntries == [h \in Hashes |-> NoEntry]

EmptyUnit == [kind |-> "ok", entries |-> NoEntries]

MissingUnit == [kind |-> "missing", entries |-> NoEntries]

MalformedKinds == {"garbage", "null", "scalar", "badversion", "noentries"}

\* new IntelligentCache(); `armed` counts the timeouts of scheduleL2Write
\* that setTimeout holds and has not fired yet; `promoted` counts, per key,
\* the promotions to L1 since the key was last set
NewCache == [l1 |-> [ck \in CacheKeys |-> NoEntry],
             l2Dirty |-> {}, l2Timers |-> {}, l2Loaded |-> {},
             armed |-> [ns \in CacheNamespace |-> 0],
             promoted |-> [ck \in CacheKeys |-> 0]]

\* ------------------------------------------------------------------------
\* Constants of context-builder and of the extension's tools
\* ------------------------------------------------------------------------
\* session memo TTL, minutes
CACHE_TTL_MS == 1

ContextDepth == {"minimal", "standard", "deep"}

\* the prompts of the model: "y" is shorter than 5 characters, "x" is a
\* prompt of substance (and the raw key under which its results are cached)
Prompts == {"y", "x"}

promptLength == [y |-> 1, x |-> 24]

\* an extraction that returns a fourth keyword
keywordCount_unlimited == [y |-> 1, x |-> 4]

\* extractSearchKeywords(prompt, 3).length
keywordCount == [y |-> 1, x |-> 3]

\* how a tribe subprocess call ends for its caller: JSON with items, an
\* empty JSON list, a non-zero exit, the 2 s ceiling of withTimeout, stdout
\* that does not parse, a rejected promise
RunOutcomes == {"ok", "empty", "nonzero", "timeout", "garbage", "reject"}

\* the sessions query has constant arguments and no abort signal: execFile
\* starts it and run() resolves, whatever the subprocess does
SessionOutcomes == RunOutcomes \ {"reject"}

\* the mutating actions of the extension: two tool executors and the
\* tribe-sync service
Mutators == {"tribe_kb_save", "tribe_kb_delete", "tribe-sync"}

\* getCache(): the singleton the context builder uses
getCache == "A"

\* the arguments of `query sessions` that depend on the depth
queryArgs(depth) ==
  [limit |-> CASE depth = "minimal" -> 5 [] depth = "standard" -> 10
               [] OTHER -> 20,
   timeRange |-> IF depth = "deep" THEN "7d" ELSE "24h"]

\* no sessions query was made
NoArgs == [limit |-> 0, timeRange |-> "none"]

\* sessionCache = null; `args` are the arguments of the query that the
\* memoized list came from, `asked` is the clock at which it was started
NullContext == [sessions |-> 0, fetchedAt |-> -1, args |-> NoArgs,
                asked |-> 0]

\* the (prompt, depth) pairs buildContext is called with
BuildInputs == Prompts \X ContextDepth

\* a buildContext call that has not been made; sessData and kbData are the
\* clock stamps of the data the call got (0: an empty list), timedOut tells
\* that one of its subprocess calls hit the ceiling of withTimeout
NoBuild == [pc |-> "idle", prompt |-> "y", depth |-> "minimal", start |-> 0,
            sess |-> "none", sessData |-> 0, sessArgs |-> NoArgs,
            sessAsked |-> 0,
            kb |-> "none", kbLeft |-> 0, kbHit |-> FALSE, kbData |-> 0,
            timedOut |-> FALSE]

\* no buildContext call has returned; prompt and depth are the arguments of
\* the call that returned, installed is what ensureInstalled answered to it
NoResult == [result |-> "none", start |-> 0, sessData |-> 0, kbData |-> 0,
             sessArgs |-> NoArgs, sessAsked |-> 0,
             installed |-> TRUE, prompt |-> "y", depth |-> "minimal",
             timedOut |-> FALSE]

VARIABLES
  now,        \* Date.now(), minutes
  cache,      \* [instance -> IntelligentCache]
  disk,       \* [namespace -> unit]
  flights,    \* [instance -> sequence of flushL2 calls in flight]
  gets,       \* [instance -> sequence of get calls awaiting the disk]
  invs,       \* [instance -> sequence of invalidate and invalidateAll calls
              \*  awaiting rm: the namespace whose rm is awaited, whether a
              \*  set of a namespace of the call ran meanwhile, whether the
              \*  call is an invalidateAll]
  ret,        \* what the get that returned in the last step returned
  lastSet,    \* [instance -> [cache key -> the last set of the key, unless
              \*  an invalidate of its namespace ran during or after it]]
  invDone,    \* [instance -> namespaces whose last invalidate has returned
              \*  with no set of the namespace since that invalidate began]
  raised,     \* a flushL2 call rejected
  overlapped, \* a flush wrote over a unit that changed after the flush read it
  nCalls,     \* calls made so far
  searched,   \* the prompts for which a buildContext call has returned with
              \*  the result of searchKB since the last invalidateCache
  arg,        \* the arguments of the function call under study
  res,        \* what that call returned
  restarted,  \* the process of instance A has ended and instance B, in a
              \*  new process, has taken over the cache directory
  flushed,    \* [cache key -> the entry that the flush which last completed
              \*  with the key wrote for it, until its namespace is
              \*  invalidated]
  sessionCache, \* the session memo of context-builder
  builds,     \* [call number -> buildContext call]
  built,      \* what the buildContext call that returned in the last step
              \*  returned
  tools,      \* tool executors and sync runs awaiting their subprocess
  clock,      \* counts the mutations of the upstream data and the
              \*  invalidateCache calls; data is stamped with it when cached
  lastInval,  \* clock of the last invalidateCache call
  lastMutation \* clock of the last mutation of the upstream data

ctxVars == <<sessionCache, builds, tools, clock, lastInval, lastMutation>>

vars == <<now, cache, disk, flights, gets, invs, ret, lastSet, invDone,
          raised, overlapped, nCalls, searched, arg, res, restarted, flushed,
          built, ctxVars>>

\* ------------------------------------------------------------------------
\* Helpers
\* ------------------------------------------------------------------------
NoGet == [inst |-> "none", ns |-> "kb", key |-> "x", value |-> undefined,
          tier |-> "none", expiresAt |-> 0]

\* no function call is under study
NoCall == [fn |-> "none"]

RemoveAt(s, n) == [j \in 1..(Len(s) - 1) |-> IF j < n THEN s[j] ELSE s[j + 1]]

\* ------------------------------------------------------------------------
\* Initial state: a new cache per instance, an empty cache directory
\* ------------------------------------------------------------------------
\* context-builder just loaded, no call made
InitContext ==
  /\ sessionCache = NullContext
  /\ builds = [b \in 1..MaxCalls |-> NoBuild]
  /\ built = NoResult
  /\ tools = <<>>
  /\ clock = 1
  /\ lastInval = 0
  /\ lastMutation = 0
  /\ searched = {}

InitStore ==
  /\ now = 0
  /\ cache = [i \in Instances |-> NewCache]
  /\ disk = [ns \in CacheNamespace |-> MissingUnit]
  /\ flights = [i \in Instances |-> <<>>]
  /\ gets = [i \in Instances |-> <<>>]
  /\ invs = [i \in Instances |-> <<>>]
  /\ ret = NoGet
  /\ lastSet = [i \in Instances |-> [ck \in CacheKeys |-> NoEntry]]
  /\ invDone = [i \in Instances |-> {}]
  /\ raised = FALSE
  /\ overlapped = FALSE
  /\ nCalls = 0
  /\ restarted = FALSE
  /\ flushed = [ck \in CacheKeys |-> NoEntry]
  /\ InitContext

InitCache ==
  /\ InitStore
  /\ arg = NoCall
  /\ res = NoCall

\* ------------------------------------------------------------------------
\* set / scheduleL2Write
\* ------------------------------------------------------------------------
\* scheduleL2Write without its guard: every call arms a timer
scheduleL2Write_noGuard(c, namespace) ==
  [c EXCEPT !.l2Timers = @ \cup {namespace}, !.armed[namespace] = @ + 1]

\* a scheduleL2Write that arms nothing
scheduleL2Write_idle(c, namespace) == c

scheduleL2Write(c, namespace) ==
  IF namespace \in c.l2Timers
  THEN c
  ELSE [c EXCEPT !.l2Timers = @ \cup {namespace},
                 !.armed[namespace] = @ + 1]

set(c, namespace, key, value, t) ==
  scheduleL2Write(
    [c EXCEPT !.l1[cacheKey(namespace, key)] =
                 [value |-> value, expiresAt |-> t + L1_TTLS[namespace]],
              !.promoted[cacheKey(namespace, key)] = 0,
              !.l2Dirty = @ \cup {namespace}],
    namespace)

Set(i, namespace, key, value) ==
  /\ nCalls < MaxCalls
  /\ nCalls' = nCalls + 1
  /\ cache' = [cache EXCEPT ![i] = set(@, namespace, key, value, now)]
  /\ lastSet' = [lastSet EXCEPT ![i][cacheKey(namespace, key)] =
                   [value |-> value, expiresAt |-> now + L1_TTLS[namespace]]]
  /\ invDone' = [invDone EXCEPT ![i] = @ \ {namespace}]
  /\ invs' = [invs EXCEPT ![i] =
               [n \in 1..Len(@) |->
                  IF @[n].ns = namespace \/ @[n].all
                  THEN [@[n] EXCEPT !.set = TRUE]
                  ELSE @[n]]]
  /\ ret' = NoGet
  /\ built' = NoResult
  /\ UNCHANGED <<searched, arg, res, restarted, flushed, ctxVars, now, disk, flights, gets, raised, overlapped>>

\* ------------------------------------------------------------------------
\* The debounce timer and flushL2
\* ------------------------------------------------------------------------
\* the setTimeout callback of scheduleL2Write, up to the first await of
\* flushL2 (ensureCacheDir)
TimerFired(i, namespace) ==
  /\ cache[i].armed[namespace] > 0
  /\ cache' = [cache EXCEPT ![i].armed[namespace] = @ - 1,
                            ![i].l2Timers = @ \ {namespace},
                            ![i].l2Dirty = @ \ {namespace}]
  /\ flights' = IF namespace \notin cache[i].l2Dirty
                THEN flights
                ELSE [flights EXCEPT ![i] = Append(@,
                        [ns |-> namespace, pc |-> "read",
                         existing |-> EmptyUnit, seen |-> MissingUnit,
                         own |-> {}])]
  /\ ret' = NoGet
  /\ built' = NoResult
  /\ UNCHANGED <<searched, arg, res, restarted, flushed, ctxVars, now, disk, gets, invs, lastSet, invDone, raised,
                 overlapped, nCalls>>

\* flushL2, "Read existing disk entries": the value of `existing` after the
\* try/catch around readFile + JSON.parse + version check
readExisting(unit) ==
  CASE unit.kind \in {"missing", "garbage"} -> EmptyUnit
    [] unit.kind \in {"scalar", "badversion"} -> EmptyUnit
    [] OTHER -> unit

FlushRead(i, n) ==
  /\ n \in 1..Len(flights[i])
  /\ flights[i][n].pc = "read"
  /\ flights' = [flights EXCEPT ![i][n] =
        [@ EXCEPT !.pc = "merge",
                  !.existing = readExisting(disk[flights[i][n].ns]),
                  !.seen = disk[flights[i][n].ns]]]
  /\ ret' = NoGet
  /\ built' = NoResult
  /\ UNCHANGED <<searched, arg, res, restarted, flushed, ctxVars, now, cache, disk, gets, invs, lastSet, invDone, raised,
                 overlapped, nCalls>>

\* existing.entries[key] = ... / Object.entries(existing.entries) throw a
\* TypeError when `existing` is null or has no entries object
mergeThrows(existing) == existing.kind \in {"null", "noentries"}

\* a flush that writes the L1 entries only, dropping what the unit held
mergeEntries_overwrite(existing, l1, namespace, t) ==
  [kind |-> "ok",
   entries |-> [h \in Hashes |->
                  IF Present(l1[<<namespace, h>>])
                     /\ l1[<<namespace, h>>].expiresAt > t
                  THEN [value |-> l1[<<namespace, h>>].value,
                        expiresAt |-> t + L2_TTLS[namespace]]
                  ELSE NoEntry]]

\* "Merge L1 entries for this namespace into disk" + "Prune expired entries"
mergeEntries(existing, l1, namespace, t) ==
  LET merged == [h \in Hashes |->
                   IF Present(l1[<<namespace, h>>])
                      /\ l1[<<namespace, h>>].expiresAt > t
                   THEN [value |-> l1[<<namespace, h>>].value,
                         expiresAt |-> t + L2_TTLS[namespace]]
                   ELSE existing.entries[h]]
  IN [kind |-> "ok",
      entries |-> [h \in Hashes |->
                     IF Present(merged[h]) /\ merged[h].expiresAt <= t
                     THEN NoEntry ELSE merged[h]]]

\* the keys of the unit that the merge loop assigns
mergedKeys(l1, namespace, t) ==
  {h \in Hashes : Present(l1[<<namespace, h>>])
                   /\ l1[<<namespace, h>>].expiresAt > t}

FlushMerge(i, n) ==
  /\ n \in 1..Len(flights[i])
  /\ flights[i][n].pc = "merge"
  /\ IF mergeThrows(flights[i][n].existing)
     THEN /\ raised' = TRUE
          /\ flights' = [flights EXCEPT ![i] = RemoveAt(@, n)]
     ELSE /\ flights' = [flights EXCEPT ![i][n] =
                [@ EXCEPT !.pc = "write",
                          !.existing = mergeEntries(flights[i][n].existing,
                                         cache[i].l1, flights[i][n].ns, now),
                          !.own = mergedKeys(cache[i].l1, flights[i][n].ns,
                                             now)]]
          /\ UNCHANGED raised
  /\ ret' = NoGet
  /\ built' = NoResult
  /\ UNCHANGED <<searched, arg, res, restarted, flushed, ctxVars, now, cache, disk, gets, invs, lastSet, invDone, overlapped,
                 nCalls>>

\* writeFile lands and flushL2 returns
FlushWrite(i, n) ==
  /\ n \in 1..Len(flights[i])
  /\ flights[i][n].pc = "write"
  /\ disk' = [disk EXCEPT ![flights[i][n].ns] = flights[i][n].existing]
  /\ flights' = [flights EXCEPT ![i] = RemoveAt(@, n)]
  /\ overlapped' = (overlapped \/ flights[i][n].seen # disk[flights[i][n].ns])
  /\ flushed' = [ck \in CacheKeys |->
                   IF ck[1] = flights[i][n].ns /\ ck[2] \in flights[i][n].own
                   THEN flights[i][n].existing.entries[ck[2]]
                   ELSE flushed[ck]]
  /\ ret' = NoGet
  /\ UNCHANGED <<searched, arg, res, restarted>>
  /\ built' = NoResult
  /\ UNCHANGED <<ctxVars, now, cache, gets, invs, lastSet, invDone, raised, nCalls>>

\* ------------------------------------------------------------------------
\* get / l2Get / loadL2
\* ------------------------------------------------------------------------
\* the L1 check with >= for >: an entry is served at its expiry instant
l1Hit_ge(l1Entry, t) == Present(l1Entry) /\ l1Entry.expiresAt >= t

\* l1Entry && l1Entry.expiresAt > Date.now()
l1Hit(l1Entry, t) == Present(l1Entry) /\ l1Entry.expiresAt > t

loadL2(c, namespace) == [c EXCEPT !.l2Loaded = @ \cup {namespace}]

\* get up to `await readFile` in l2Get: the L1 check, the eviction of an
\* expired entry, loadL2
Get(i, namespace, key) ==
  LET ck == cacheKey(namespace, key)
      l1Entry == cache[i].l1[ck]
  IN /\ nCalls < MaxCalls
     /\ nCalls' = nCalls + 1
     /\ IF l1Hit(l1Entry, now)
        THEN /\ ret' = [inst |-> i, ns |-> namespace, key |-> key,
                        value |-> l1Entry.value, tier |-> "l1",
                        expiresAt |-> l1Entry.expiresAt]
             /\ UNCHANGED <<cache, gets>>
        ELSE /\ cache' = [cache EXCEPT ![i] =
                            loadL2([@ EXCEPT !.l1[ck] = NoEntry], namespace)]
             /\ gets' = [gets EXCEPT ![i] = Append(@,
                            [ns |-> namespace, key |-> key, call |-> 0,
                             pc |-> "read", data |-> MissingUnit])]
             /\ ret' = NoGet
     /\ built' = NoResult
     /\ UNCHANGED <<searched, arg, res, restarted, flushed, ctxVars, now, disk, flights, invs, lastSet, invDone, raised,
                    overlapped>>

\* readFile(diskPath(namespace)) takes its snapshot of the file
GetRead(i, n) ==
  /\ n \in 1..Len(gets[i])
  /\ gets[i][n].pc = "read"
  /\ gets' = [gets EXCEPT ![i][n] =
        [@ EXCEPT !.pc = "parse", !.data = disk[gets[i][n].ns]]]
  /\ ret' = NoGet
  /\ built' = NoResult
  /\ UNCHANGED <<searched, arg, res, restarted, flushed, ctxVars, now, cache, disk, flights, invs, lastSet, invDone, raised,
                 overlapped, nCalls>>

\* l2Get without its expiry check
l2Lookup_noExpiry(data, h, t) ==
  IF data.kind # "ok" THEN NoEntry ELSE data.entries[h]

\* l2Get after readFile: the entry it returns, NoEntry for undefined
l2Lookup(data, h, t) ==
  IF data.kind # "ok" THEN NoEntry
  ELSE IF ~Present(data.entries[h]) \/ data.entries[h].expiresAt <= t
       THEN NoEntry
       ELSE data.entries[h]

\* a promotion that keeps the persisted expiry
promote_keepExpiry(c, namespace, key, entry, t) ==
  [c EXCEPT !.l1[cacheKey(namespace, key)] =
     [value |-> entry.value, expiresAt |-> entry.expiresAt],
            !.promoted[cacheKey(namespace, key)] = @ + 1]

\* "Promote to L1"
promote(c, namespace, key, entry, t) ==
  [c EXCEPT !.l1[cacheKey(namespace, key)] =
     [value |-> entry.value, expiresAt |-> t + L1_TTLS[namespace]],
            !.promoted[cacheKey(namespace, key)] = @ + 1]

\* the rest of l2Get and of get: parse, expiry check, promotion to L1
GetResume(i, n) ==
  /\ n \in 1..Len(gets[i])
  /\ gets[i][n].pc = "parse"
  /\ gets[i][n].call = 0
  /\ LET g == gets[i][n]
         entry == l2Lookup(g.data, md5[g.key], now)
     IN IF Present(entry)
        THEN /\ cache' = [cache EXCEPT ![i] =
                            promote(@, g.ns, g.key, entry, now)]
             /\ ret' = [inst |-> i, ns |-> g.ns, key |-> g.key,
                        value |-> entry.value, tier |-> "l2",
                        expiresAt |-> entry.expiresAt]
        ELSE /\ UNCHANGED cache
             /\ ret' = [inst |-> i, ns |-> g.ns, key |-> g.key,
                        value |-> undefined, tier |-> "miss",
                        expiresAt |-> 0]
  /\ gets' = [gets EXCEPT ![i] = RemoveAt(@, n)]
  /\ built' = NoResult
  /\ UNCHANGED <<searched, arg, res, restarted, flushed, ctxVars, now, disk, flights, invs, lastSet, invDone, raised,
                 overlapped, nCalls>>

\* ------------------------------------------------------------------------
\* invalidate
\* ------------------------------------------------------------------------
\* "Clear L1 entries for this namespace"
clearNamespace(l1, namespace) ==
  [ck \in CacheKeys |-> IF startsWith(ck, namespace) THEN NoEntry ELSE l1[ck]]

\* invalidate up to `await rm`
Invalidate(i, namespace) ==
  /\ nCalls < MaxCalls
  /\ nCalls' = nCalls + 1
  /\ cache' = [cache EXCEPT ![i].l1 = clearNamespace(@, namespace)]
  /\ invs' = [invs EXCEPT ![i] = Append(@,
                 [ns |-> namespace, set |-> FALSE, all |-> FALSE])]
  /\ lastSet' = [lastSet EXCEPT ![i] = clearNamespace(@, namespace)]
  /\ flushed' = clearNamespace(flushed, namespace)
  /\ ret' = NoGet
  /\ UNCHANGED <<searched, arg, res, restarted>>
  /\ built' = NoResult
  /\ UNCHANGED <<ctxVars, now, disk, flights, gets, invDone, raised, overlapped>>

\* rm(diskPath(namespace), {force: true}) lands, then l2Loaded.delete and
\* invalidate returns
InvalidateRm(i, n) ==
  /\ n \in 1..Len(invs[i])
  /\ ~invs[i][n].all
  /\ disk' = [disk EXCEPT ![invs[i][n].ns] = MissingUnit]
  /\ cache' = [cache EXCEPT ![i].l2Loaded = @ \ {invs[i][n].ns}]
  /\ invDone' = [invDone EXCEPT ![i] =
                  IF invs[i][n].set THEN @ ELSE @ \cup {invs[i][n].ns}]
  /\ lastSet' = [lastSet EXCEPT ![i] = clearNamespace(@, invs[i][n].ns)]
  /\ flushed' = clearNamespace(flushed, invs[i][n].ns)
  /\ invs' = [invs EXCEPT ![i] = RemoveAt(@, n)]
  /\ ret' = NoGet
  /\ UNCHANGED <<searched, arg, res, restarted>>
  /\ built' = NoResult
  /\ UNCHANGED <<ctxVars, now, flights, gets, raised, overlapped, nCalls>>

\* ------------------------------------------------------------------------
\* invalidateAll
\* ------------------------------------------------------------------------
\* the order of the loop over ["kb", "sessions", "search"]
nextNamespace == [kb |-> "sessions", sessions |-> "search", search |-> "kb"]

\* invalidateAll up to its first `await rm`
InvalidateAll(i) ==
  /\ nCalls < MaxCalls
  /\ nCalls' = nCalls + 1
  /\ cache' = [cache EXCEPT ![i].l1 = [ck \in CacheKeys |-> NoEntry],
                            ![i].l2Loaded = {}]
  /\ invs' = [invs EXCEPT ![i] = Append(@,
                 [ns |-> "kb", set |-> FALSE, all |-> TRUE])]
  /\ lastSet' = [lastSet EXCEPT ![i] = [ck \in CacheKeys |-> NoEntry]]
  /\ flushed' = [ck \in CacheKeys |-> NoEntry]
  /\ ret' = NoGet
  /\ UNCHANGED <<searched, arg, res, restarted>>
  /\ built' = NoResult
  /\ UNCHANGED <<ctxVars, now, disk, flights, gets, invDone, raised,
                 overlapped>>

\* one rm of invalidateAll lands; after the last one invalidateAll returns
InvalidateAllRm(i, n) ==
  /\ n \in 1..Len(invs[i])
  /\ invs[i][n].all
  /\ disk' = [disk EXCEPT ![invs[i][n].ns] = MissingUnit]
  /\ lastSet' = [lastSet EXCEPT ![i] = clearNamespace(@, invs[i][n].ns)]
  /\ flushed' = clearNamespace(flushed, invs[i][n].ns)
  /\ IF invs[i][n].ns = "search"
     THEN /\ invs' = [invs EXCEPT ![i] = RemoveAt(@, n)]
          /\ invDone' = [invDone EXCEPT ![i] =
                          IF invs[i][n].set THEN @ ELSE CacheNamespace]
     ELSE /\ invs' = [invs EXCEPT ![i][n].ns = nextNamespace[@]]
          /\ UNCHANGED invDone
  /\ ret' = NoGet
  /\ UNCHANGED <<searched, arg, res, restarted>>
  /\ built' = NoResult
  /\ UNCHANGED <<ctxVars, now, cache, flights, gets, raised, overlapped,
                 nCalls>>

\* ------------------------------------------------------------------------
\* Failing disk I/O
\* ------------------------------------------------------------------------
\* what l2Get holds after a readFile that rejected (EACCES, EIO, ...)
ErrorUnit == [kind |-> "error", entries |-> NoEntries]

\* a set of awaited fs calls with one of them left outside its try block
TryCatch_noWrite == {"l2Get.readFile", "flushL2.readFile", "invalidate.rm"}

\* the awaited fs calls that sit inside a try block with an empty catch
TryCatch ==
  {"l2Get.readFile", "flushL2.readFile", "flushL2.writeFile", "invalidate.rm"}

\* an fs call rejects: the rejection reaches the caller unless it is caught
surfaces(call) == call \notin TryCatch

\* readFile of l2Get rejects
GetReadFails(i, n) ==
  /\ n \in 1..Len(gets[i])
  /\ gets[i][n].pc = "read"
  /\ gets' = [gets EXCEPT ![i][n] =
        [@ EXCEPT !.pc = "parse", !.data = ErrorUnit]]
  /\ raised' = (raised \/ surfaces("l2Get.readFile"))
  /\ ret' = NoGet
  /\ built' = NoResult
  /\ UNCHANGED <<searched, arg, res, restarted, flushed, ctxVars, now, cache, disk, flights, invs, lastSet, invDone,
                 overlapped, nCalls>>

\* readFile of flushL2 rejects: `existing` keeps its initial value
FlushReadFails(i, n) ==
  /\ n \in 1..Len(flights[i])
  /\ flights[i][n].pc = "read"
  /\ flights' = [flights EXCEPT ![i][n] =
        [@ EXCEPT !.pc = "merge", !.existing = EmptyUnit,
                  !.seen = disk[flights[i][n].ns]]]
  /\ raised' = (raised \/ surfaces("flushL2.readFile"))
  /\ ret' = NoGet
  /\ built' = NoResult
  /\ UNCHANGED <<searched, arg, res, restarted, flushed, ctxVars, now, cache, disk, gets, invs, lastSet, invDone,
                 overlapped, nCalls>>

\* writeFile of flushL2 rejects: the unit stays as it was
FlushWriteFails(i, n) ==
  /\ n \in 1..Len(flights[i])
  /\ flights[i][n].pc = "write"
  /\ flights' = [flights EXCEPT ![i] = RemoveAt(@, n)]
  /\ raised' = (raised \/ surfaces("flushL2.writeFile"))
  /\ ret' = NoGet
  /\ built' = NoResult
  /\ UNCHANGED <<searched, arg, res, restarted, flushed, ctxVars, now, cache, disk, gets, invs, lastSet, invDone,
                 overlapped, nCalls>>

\* rm of invalidate rejects: the unit stays, l2Loaded.delete runs
InvalidateRmFails(i, n) ==
  /\ n \in 1..Len(invs[i])
  /\ ~invs[i][n].all
  /\ cache' = [cache EXCEPT ![i].l2Loaded = @ \ {invs[i][n].ns}]
  /\ invs' = [invs EXCEPT ![i] = RemoveAt(@, n)]
  /\ raised' = (raised \/ surfaces("invalidate.rm"))
  /\ ret' = NoGet
  /\ built' = NoResult
  /\ UNCHANGED <<searched, arg, res, restarted, flushed, ctxVars, now, disk, flights, gets, lastSet, invDone,
                 overlapped, nCalls>>

\* ------------------------------------------------------------------------
\* Process restart
\* ------------------------------------------------------------------------
\* the keys of the process that is restarted: two keys of the namespace
\* whose persisted TTL elapses within MaxTime
RestartInputs == {<<"sessions", "x">>, <<"sessions", "y">>}

\* the process of instance A ends: its L1, its timers and what it has in
\* flight are gone, the cache directory stays as it is; instance B starts
Restart ==
  /\ ~restarted
  /\ restarted' = TRUE
  /\ cache' = [cache EXCEPT !["A"] = NewCache]
  /\ flights' = [flights EXCEPT !["A"] = <<>>]
  /\ gets' = [gets EXCEPT !["A"] = <<>>]
  /\ invs' = [invs EXCEPT !["A"] = <<>>]
  /\ ret' = NoGet
  /\ built' = NoResult
  /\ UNCHANGED <<searched, arg, res, flushed, ctxVars, now, disk, lastSet, invDone,
                 raised, overlapped, nCalls>>

\* ------------------------------------------------------------------------
\* The clock
\* ------------------------------------------------------------------------
Tick ==
  /\ now < MaxTime
  /\ now' = now + 1
  /\ ret' = NoGet
  /\ built' = NoResult
  /\ UNCHANGED <<searched, arg, res, restarted, flushed, ctxVars, cache, disk, flights, gets, invs, lastSet, invDone,
                 raised, overlapped, nCalls>>

\* ------------------------------------------------------------------------
\* context-builder: buildContext, fetchRecentSessions, searchKB
\* ------------------------------------------------------------------------
isCacheFresh(sc, t) == sc # NullContext /\ t - sc.fetchedAt < CACHE_TTL_MS

\* a search at every depth
searchesKB_anyDepth(prompt, depth) == promptLength[prompt] >= 5

\* a search for every prompt
searchesKB_anyLength(prompt, depth) == depth # "minimal"

\* depth !== "minimal" && prompt.length >= 5
searchesKB(prompt, depth) == depth # "minimal" /\ promptLength[prompt] >= 5

\* a call that has returned keeps only the queries it left running
abandoned(call) ==
  LET s == IF call.sess = "pending" THEN "pending" ELSE "none"
      k == IF call.kb \in {"get", "search"} THEN call.kb ELSE "none"
  IN IF call.pc # "done" THEN call
     ELSE IF s = "none" /\ k = "none" THEN NoBuild
     ELSE [NoBuild EXCEPT !.pc = "done",
                          !.prompt = IF k = "none" THEN "y" ELSE call.prompt,
                          !.sess = s, !.kb = k,
                          !.sessArgs = IF s = "none" THEN NoArgs
                                       ELSE call.sessArgs,
                          !.sessAsked = IF s = "none" THEN 0
                                        ELSE call.sessAsked,
                          !.kbLeft = call.kbLeft, !.kbHit = call.kbHit]

\* the gateway runs one hook or tool at a time: it makes its next call when
\* the previous one has returned (what a call left running goes on)
Idle ==
  /\ \A b \in 1..MaxCalls : builds[b].pc \notin {"access", "queries"}
  /\ tools = <<>>

\* buildContext is called; it runs up to `await ensureInstalled()`
BuildContext(prompt, depth) ==
  /\ Idle
  /\ nCalls < MaxCalls
  /\ nCalls' = nCalls + 1
  /\ builds' = [builds EXCEPT ![nCalls + 1] =
        [NoBuild EXCEPT !.pc = "access", !.prompt = prompt,
                        !.depth = depth, !.start = clock]]
  /\ ret' = NoGet
  /\ built' = NoResult
  /\ UNCHANGED <<searched, arg, res, restarted, flushed, now, cache, disk, flights, gets, invs, lastSet, invDone,
                 raised, overlapped, sessionCache, tools, clock,
                 lastInval, lastMutation>>

\* a buildContext that goes on whatever ensureInstalled answered
bailsEarly_never(installed) == FALSE

\* if (!installed) return null
bailsEarly(installed) == ~installed

\* ensureInstalled returns.  Not installed: buildContext returns null.
\* Installed: fetchRecentSessions runs up to its subprocess (or returns the
\* memo), then searchKB runs cache.get up to `await readFile` (or hits L1).
EnsureInstalled(b, installed) ==
  LET call == builds[b]
      ck == cacheKey("kb", call.prompt)
      fresh == isCacheFresh(sessionCache, now)
      search == searchesKB(call.prompt, call.depth)
      hit == search /\ l1Hit(cache[getCache].l1[ck], now)
  IN /\ call.pc = "access"
     /\ IF bailsEarly(installed)
        THEN /\ builds' = [builds EXCEPT ![b] = NoBuild]
             /\ built' = [NoResult EXCEPT !.result = "null",
                                          !.start = call.start,
                                          !.installed = FALSE,
                                          !.prompt = call.prompt,
                                          !.depth = call.depth]
             /\ UNCHANGED <<cache, gets>>
        ELSE /\ builds' = [builds EXCEPT ![b] =
                  [@ EXCEPT !.pc = "queries",
                            !.sess = IF fresh THEN "resolved" ELSE "pending",
                            !.sessData = IF fresh THEN sessionCache.sessions
                                         ELSE 0,
                            !.sessArgs = IF fresh THEN sessionCache.args
                                         ELSE queryArgs(call.depth),
                            !.sessAsked = IF fresh THEN sessionCache.asked
                                          ELSE clock,
                            !.kb = IF ~search THEN "skipped"
                                   ELSE IF hit THEN "resolved" ELSE "get",
                            !.kbData = IF hit
                                       THEN cache[getCache].l1[ck].value
                                       ELSE 0]]
             /\ IF search /\ ~hit
                THEN /\ cache' = [cache EXCEPT ![getCache] =
                            loadL2([@ EXCEPT !.l1[ck] = NoEntry], "kb")]
                     /\ gets' = [gets EXCEPT ![getCache] = Append(@,
                            [ns |-> "kb", key |-> call.prompt, call |-> b,
                             pc |-> "read", data |-> MissingUnit])]
                ELSE UNCHANGED <<cache, gets>>
             /\ built' = NoResult
     /\ ret' = NoGet
     /\ UNCHANGED <<searched, arg, res, restarted, flushed, now, disk, flights, invs, lastSet, invDone, raised,
                    overlapped, nCalls, sessionCache, tools, clock,
                    lastInval, lastMutation>>

\* a withTimeout whose timer rejects
withTimeout_rejects(outcome) ==
  IF outcome = "timeout" THEN "reject" ELSE outcome

\* what the caller of withTimeout gets: at the ceiling the fallback
\* { stdout: "[]", stderr: "", exitCode: 1 }, which reads as a non-zero exit
withTimeout(outcome) ==
  IF outcome = "timeout" THEN "nonzero" ELSE outcome

\* a fetchRecentSessions that memoizes whatever came back
memoizes_always(result) == TRUE

\* fetchRecentSessions reaches `sessionCache = ...` when the exit code is 0
\* and extractJSON does not throw
memoizes(result) == result \in {"ok", "empty"}

\* the sessions subprocess of fetchRecentSessions ends (or withTimeout
\* gives up on it) and fetchRecentSessions returns
FetchRecentSessionsDone(b, outcome) ==
  /\ builds[b].sess = "pending"
  /\ builds' = [builds EXCEPT ![b] = abandoned(
        [@ EXCEPT !.sess = IF withTimeout(outcome) = "reject" THEN "rejected"
                           ELSE "resolved",
                  !.sessData = IF withTimeout(outcome) = "ok" THEN clock
                               ELSE 0,
                  !.timedOut = @ \/ outcome = "timeout"])]
  /\ sessionCache' =
        IF memoizes(withTimeout(outcome))
        THEN [sessions |-> IF withTimeout(outcome) = "ok" THEN clock ELSE 0,
              fetchedAt |-> now, args |-> builds[b].sessArgs,
              asked |-> builds[b].sessAsked]
        ELSE sessionCache
  /\ ret' = NoGet
  /\ built' = NoResult
  /\ UNCHANGED <<searched, arg, res, restarted, flushed, now, cache, disk, flights, gets, invs, lastSet, invDone,
                 raised, overlapped, nCalls, tools, clock, lastInval,
                 lastMutation>>

\* cache.get of searchKB returns: searchKB returns what was cached, or
\* starts one runKBSearch per keyword
SearchKBGet(b, n) ==
  /\ n \in 1..Len(gets[getCache])
  /\ gets[getCache][n].pc = "parse"
  /\ gets[getCache][n].call = b
  /\ LET g == gets[getCache][n]
         entry == l2Lookup(g.data, md5[g.key], now)
     IN IF Present(entry)
        THEN /\ cache' = [cache EXCEPT ![getCache] =
                            promote(@, g.ns, g.key, entry, now)]
             /\ builds' = [builds EXCEPT ![b] = abandoned(
                             [@ EXCEPT !.kb = "resolved",
                                       !.kbData = entry.value])]
        ELSE /\ UNCHANGED cache
             /\ builds' = [builds EXCEPT ![b].kb = "search",
                             ![b].kbLeft = keywordCount[builds[b].prompt]]
  /\ gets' = [gets EXCEPT ![getCache] = RemoveAt(@, n)]
  /\ ret' = NoGet
  /\ built' = NoResult
  /\ UNCHANGED <<searched, arg, res, restarted, flushed, now, disk, flights, invs, lastSet, invDone, raised,
                 overlapped, nCalls, sessionCache, tools, clock,
                 lastInval, lastMutation>>

\* one runKBSearch of searchKB returns; after the last one searchKB merges,
\* stores a non-empty result in the cache and returns.  A rejected search
\* rejects the Promise.all of searchKB at once.
RunKBSearchDone(b, outcome) ==
  LET call == builds[b]
      left == call.kbLeft - 1
      anyHit == call.kbHit \/ withTimeout(outcome) = "ok"
      late == call.timedOut \/ outcome = "timeout"
  IN /\ call.kb = "search"
     /\ IF withTimeout(outcome) = "reject"
        THEN /\ builds' = [builds EXCEPT ![b] = abandoned(
                             [@ EXCEPT !.kb = "rejected", !.kbLeft = 0,
                                       !.kbHit = FALSE])]
             /\ UNCHANGED cache
        ELSE IF left > 0
        THEN /\ builds' = [builds EXCEPT ![b].kbLeft = left,
                                         ![b].kbHit = anyHit,
                                         ![b].timedOut = late]
             /\ UNCHANGED cache
        ELSE /\ builds' = [builds EXCEPT ![b] = abandoned(
                             [@ EXCEPT !.kb = "resolved", !.kbLeft = 0,
                                       !.kbHit = FALSE,
                                       !.timedOut = late,
                                       !.kbData = IF anyHit THEN clock
                                                  ELSE 0])]
             /\ cache' = IF anyHit
                         THEN [cache EXCEPT ![getCache] =
                                 set(@, "kb", call.prompt, clock, now)]
                         ELSE cache
     /\ ret' = NoGet
     /\ built' = NoResult
     /\ UNCHANGED <<searched, arg, res, restarted, flushed, now, disk, flights, gets, invs, lastSet, invDone, raised,
                    overlapped, nCalls, sessionCache, tools, clock,
                    lastInval, lastMutation>>

\* Promise.all of buildContext settles: it rejects as soon as one query has
\* rejected, and resolves when both have resolved; then the block is built
BuildContextReturn(b) ==
  LET call == builds[b]
      rejects == call.sess = "rejected" \/ call.kb = "rejected"
      resolves == call.sess = "resolved" /\ call.kb \in {"resolved", "skipped"}
  IN /\ call.pc = "queries"
     /\ rejects \/ resolves
     /\ builds' = [builds EXCEPT ![b] = abandoned([@ EXCEPT !.pc = "done"])]
     /\ built' = IF rejects
                 THEN [NoResult EXCEPT !.result = "rejected",
                                       !.start = call.start,
                                       !.prompt = call.prompt,
                                       !.depth = call.depth]
                 ELSE [result |-> IF call.sessData = 0 /\ call.kbData = 0
                                  THEN "null" ELSE "block",
                       start |-> call.start,
                       sessData |-> call.sessData, kbData |-> call.kbData,
                       sessArgs |-> call.sessArgs,
                       sessAsked |-> call.sessAsked,
                       installed |-> TRUE,
                       prompt |-> call.prompt, depth |-> call.depth,
                       timedOut |-> call.timedOut]
     /\ searched' = IF call.kb = "resolved" /\ ~rejects
                    THEN searched \cup {call.prompt} ELSE searched
     /\ ret' = NoGet
     /\ UNCHANGED <<arg, res, restarted, flushed, now, cache, disk, flights, gets, invs, lastSet, invDone,
                    raised, overlapped, nCalls, sessionCache, tools, clock,
                    lastInval, lastMutation>>

\* ------------------------------------------------------------------------
\* invalidateCache, the tool executors and the sync service
\* ------------------------------------------------------------------------
\* invalidateCache(): the memo is dropped and both cache.invalidate calls
\* run up to their `await rm`; nothing waits for them
invalidateCache ==
  /\ sessionCache' = NullContext
  /\ cache' = [cache EXCEPT ![getCache].l1 =
                 clearNamespace(clearNamespace(@, "kb"), "sessions")]
  /\ invs' = [invs EXCEPT ![getCache] =
                 Append(Append(@,
                   [ns |-> "kb", set |-> FALSE, all |-> FALSE]),
                   [ns |-> "sessions", set |-> FALSE, all |-> FALSE])]
  /\ flushed' = clearNamespace(clearNamespace(flushed, "kb"), "sessions")
  /\ clock' = clock + 1
  /\ lastInval' = clock + 1
  /\ searched' = {}

\* a caller of the module calls invalidateCache()
InvalidateCache ==
  /\ Idle
  /\ nCalls < MaxCalls
  /\ nCalls' = nCalls + 1
  /\ invalidateCache
  /\ ret' = NoGet
  /\ UNCHANGED <<arg, res, restarted>>
  /\ built' = NoResult
  /\ UNCHANGED <<now, disk, flights, gets, lastSet, invDone, raised,
                 overlapped, builds, tools, lastMutation>>

\* a tool executor is called, or the sync interval elapses: the subprocess
\* is started
Execute(name) ==
  /\ Idle
  /\ nCalls < MaxCalls
  /\ nCalls' = nCalls + 1
  /\ tools' = Append(tools, name)
  /\ ret' = NoGet
  /\ built' = NoResult
  /\ UNCHANGED <<searched, arg, res, restarted, flushed, now, cache, disk, flights, gets, invs, lastSet, invDone,
                 raised, overlapped, sessionCache, builds, clock,
                 lastInval, lastMutation>>

\* the subprocess ends, having changed the upstream data unless it failed.
\* The executors return textResult(out) or throw; the sync callback goes on
\* to invalidateCache().
ExecuteDone(n, succeeded) ==
  /\ n \in 1..Len(tools)
  /\ tools' = RemoveAt(tools, n)
  /\ lastMutation' = IF succeeded THEN clock + 1 ELSE lastMutation
  /\ IF tools[n] = "tribe-sync"
     THEN invalidateCache
     ELSE /\ clock' = IF succeeded THEN clock + 1 ELSE clock
          /\ UNCHANGED <<sessionCache, cache, invs, lastInval, flushed,
                         searched>>
  /\ ret' = NoGet
  /\ UNCHANGED <<arg, res, restarted>>
  /\ built' = NoResult
  /\ UNCHANGED <<now, disk, flights, gets, lastSet, invDone, raised,
                 overlapped, nCalls, builds>>

\* ------------------------------------------------------------------------
\* Specifications
\* ------------------------------------------------------------------------
\* one task of the event loop of a process that holds the instances I and
\* whose callers use the inputs ins
CacheStep(I, ins) ==
  \/ \E i \in I, in \in ins : Set(i, in[1], in[2], nCalls + 1)
  \/ \E i \in I, in \in ins : Get(i, in[1], in[2])
  \/ \E i \in I, n \in 1..MaxCalls : GetRead(i, n)
  \/ \E i \in I, n \in 1..MaxCalls : GetResume(i, n)
  \/ \E i \in I, in \in ins : Invalidate(i, in[1])
  \/ \E i \in I, n \in 1..MaxCalls : InvalidateRm(i, n)
  \/ \E i \in I, ns \in CacheNamespace : TimerFired(i, ns)
  \/ \E i \in I, n \in 1..MaxCalls : FlushRead(i, n)
  \/ \E i \in I, n \in 1..MaxCalls : FlushMerge(i, n)
  \/ \E i \in I, n \in 1..MaxCalls : FlushWrite(i, n)

\* one instance, its callers and its flushes, within one minute
NextCache == CacheStep({"A"}, Inputs)

SpecCache == InitCache /\ [][NextCache]_vars

\* one instance over time: the namespace whose TTLs elapse within MaxTime
NextTtl == CacheStep({"A"}, TtlInputs) \/ Tick

SpecTtl == InitCache /\ [][NextTtl]_vars

\* ------------------------------------------------------------------------
\* The lifetime of one value: time without end
\* ------------------------------------------------------------------------
\* calls that may await the disk at one time, and flushes in flight
MaxPending == 1

\* an entry seen one minute later: the present is always minute 0, so what
\* ages is the distance to expiresAt (an expired entry stays expired)
aged(entry) ==
  IF Present(entry) /\ entry.expiresAt > 0
  THEN [entry EXCEPT !.expiresAt = @ - 1] ELSE entry

agedUnit(unit) == [unit EXCEPT !.entries = [h \in Hashes |-> aged(@[h])]]

\* a minute passes: every stamp, stored or held by a call in flight, is one
\* minute nearer; calls and promotions are counted within the minute
Elapse ==
  /\ cache' = [i \in Instances |->
                 [cache[i] EXCEPT
                    !.l1 = [ck \in CacheKeys |-> aged(@[ck])],
                    !.promoted = [ck \in CacheKeys |-> 0]]]
  /\ disk' = [ns \in CacheNamespace |-> agedUnit(disk[ns])]
  /\ flights' = [i \in Instances |->
                   [n \in 1..Len(flights[i]) |->
                      [flights[i][n] EXCEPT !.existing = agedUnit(@),
                                            !.seen = agedUnit(@)]]]
  /\ gets' = [i \in Instances |->
                [n \in 1..Len(gets[i]) |->
                   [gets[i][n] EXCEPT !.data = agedUnit(@)]]]
  /\ lastSet' = [i \in Instances |->
                   [ck \in CacheKeys |-> aged(lastSet[i][ck])]]
  /\ flushed' = [ck \in CacheKeys |-> aged(flushed[ck])]
  /\ nCalls' = 0
  /\ ret' = NoGet
  /\ built' = NoResult
  /\ UNCHANGED <<now, invs, invDone, raised, overlapped, searched, arg, res,
                 restarted, ctxVars>>

\* set("sessions", "x", 1) has just run on a new cache
InitLife ==
  /\ now = 0
  /\ cache = [i \in Instances |->
                IF i = "A" THEN set(NewCache, "sessions", "x", 1, 0)
                ELSE NewCache]
  /\ disk = [ns \in CacheNamespace |-> MissingUnit]
  /\ flights = [i \in Instances |-> <<>>]
  /\ gets = [i \in Instances |-> <<>>]
  /\ invs = [i \in Instances |-> <<>>]
  /\ ret = NoGet
  /\ lastSet = [i \in Instances |-> [ck \in CacheKeys |->
                  IF i = "A" /\ ck = cacheKey("sessions", "x")
                  THEN [value |-> 1, expiresAt |-> L1_TTLS["sessions"]]
                  ELSE NoEntry]]
  /\ invDone = [i \in Instances |-> {}]
  /\ raised = FALSE
  /\ overlapped = FALSE
  /\ nCalls = 1
  /\ restarted = FALSE
  /\ flushed = [ck \in CacheKeys |-> NoEntry]
  /\ InitContext
  /\ arg = NoCall
  /\ res = NoCall

\* after the one set of x: gets of x, sets of the other key of the
\* namespace, the flushes, and time
NextLife ==
  \/ Set("A", "sessions", "y", 2)
  \/ Len(gets["A"]) < MaxPending /\ Get("A", "sessions", "x")
  \/ \E n \in 1..MaxPending : GetRead("A", n)
  \/ \E n \in 1..MaxPending : GetResume("A", n)
  \/ Len(flights["A"]) < MaxPending /\ TimerFired("A", "sessions")
  \/ \E n \in 1..MaxPending : FlushRead("A", n)
  \/ \E n \in 1..MaxPending : FlushMerge("A", n)
  \/ \E n \in 1..MaxPending : FlushWrite("A", n)
  \/ Elapse

\* time advances
SpecLife == InitLife /\ [][NextLife]_vars /\ WF_vars(Elapse)

\* two instances (two processes) on one cache directory: their sets and
\* their flushes
NextShared ==
  \/ \E i \in Instances, in \in SharedInputs : Set(i, in[1], in[2], nCalls + 1)
  \/ \E i \in Instances, ns \in CacheNamespace : TimerFired(i, ns)
  \/ \E i \in Instances, n \in 1..MaxCalls : FlushRead(i, n)
  \/ \E i \in Instances, n \in 1..MaxCalls : FlushMerge(i, n)
  \/ \E i \in Instances, n \in 1..MaxCalls : FlushWrite(i, n)

SpecShared == InitCache /\ [][NextShared]_vars

\* one instance started on a cache directory whose kb unit is in any state
InitUnits ==
  /\ now = 0
  /\ cache = [i \in Instances |-> NewCache]
  /\ \E kind \in MalformedKinds \cup {"missing", "ok"} :
       disk = [ns \in CacheNamespace |->
                 IF ns = "kb" THEN [kind |-> kind, entries |-> NoEntries]
                 ELSE MissingUnit]
  /\ flights = [i \in Instances |-> <<>>]
  /\ gets = [i \in Instances |-> <<>>]
  /\ invs = [i \in Instances |-> <<>>]
  /\ ret = NoGet
  /\ lastSet = [i \in Instances |-> [ck \in CacheKeys |-> NoEntry]]
  /\ invDone = [i \in Instances |-> {}]
  /\ raised = FALSE
  /\ overlapped = FALSE
  /\ nCalls = 0
  /\ arg = NoCall
  /\ res = NoCall
  /\ restarted = FALSE
  /\ flushed = [ck \in CacheKeys |-> NoEntry]
  /\ InitContext

SpecUnits == InitUnits /\ [][NextCache]_vars

\* one instance whose disk calls may fail at any time
NextIo ==
  \/ NextCache
  \/ \E n \in 1..MaxCalls : GetReadFails("A", n)
  \/ \E n \in 1..MaxCalls : FlushReadFails("A", n)
  \/ \E n \in 1..MaxCalls : FlushWriteFails("A", n)
  \/ \E n \in 1..MaxCalls : InvalidateRmFails("A", n)

SpecIo == InitCache /\ [][NextIo]_vars

\* one instance whose callers set, get and invalidateAll
NextAll ==
  \/ \E in \in Inputs : Set("A", in[1], in[2], nCalls + 1)
  \/ \E in \in Inputs : Get("A", in[1], in[2])
  \/ \E n \in 1..MaxCalls : GetRead("A", n)
  \/ \E n \in 1..MaxCalls : GetResume("A", n)
  \/ InvalidateAll("A")
  \/ \E n \in 1..MaxCalls : InvalidateAllRm("A", n)
  \/ \E ns \in CacheNamespace : TimerFired("A", ns)
  \/ \E n \in 1..MaxCalls : FlushRead("A", n)
  \/ \E n \in 1..MaxCalls : FlushMerge("A", n)
  \/ \E n \in 1..MaxCalls : FlushWrite("A", n)

SpecAll == InitCache /\ [][NextAll]_vars

\* instance A sets and flushes, the process restarts, instance B gets
NextRestart ==
  \/ /\ ~restarted
     /\ \/ \E in \in RestartInputs : Set("A", in[1], in[2], nCalls + 1)
        \/ \E ns \in CacheNamespace : TimerFired("A", ns)
        \/ \E n \in 1..MaxCalls : FlushRead("A", n)
        \/ \E n \in 1..MaxCalls : FlushMerge("A", n)
        \/ \E n \in 1..MaxCalls : FlushWrite("A", n)
  \/ Restart
  \/ /\ restarted
     /\ \/ \E in \in RestartInputs : Get("B", in[1], in[2])
        \/ \E n \in 1..MaxCalls : GetRead("B", n)
        \/ \E n \in 1..MaxCalls : GetResume("B", n)
  \/ Tick

SpecRestart == InitCache /\ [][NextRestart]_vars

\* ------------------------------------------------------------------------
\* Strings: a string is the sequence of its lines, a line the sequence of
\* its tokens ("a\nb" is <<<<"a">>, <<"b">>>>, "" is <<<<>>>>)
\* ------------------------------------------------------------------------
EmptyString == << <<>> >>

\* a one-line string of the given tokens
lit(tokens) == <<tokens>>

\* "\n"
newline == << <<>>, <<>> >>

\* a + b
cat(a, b) ==
  SubSeq(a, 1, Len(a) - 1) \o <<a[Len(a)] \o b[1]>> \o Tail(b)

\* the concatenation of a sequence of strings
RECURSIVE concat(_)
concat(ss) == IF ss = <<>> THEN EmptyString ELSE cat(Head(ss), concat(Tail(ss)))

\* ss.join(sep)
RECURSIVE join(_, _)
join(ss, sep) ==
  IF ss = <<>> THEN EmptyString
  ELSE IF Len(ss) = 1 THEN ss[1]
  ELSE concat(<<ss[1], sep, join(Tail(ss), sep)>>)

\* the truthiness of a string
truthy(str) == str # EmptyString

\* the strings of a list that are pushed by `if (block) parts.push(block)`
RECURSIVE pushed(_)
pushed(ss) ==
  IF ss = <<>> THEN <<>>
  ELSE IF truthy(Head(ss)) THEN <<Head(ss)>> \o pushed(Tail(ss))
  ELSE pushed(Tail(ss))

\* ------------------------------------------------------------------------
\* Formatting helpers and the block of buildContext
\* ------------------------------------------------------------------------
\* lists of sessions and of knowledge matches hold at most MaxItems items
MaxItems == 2

\* "<tribe-context>" and "</tribe-context>"
OpenMarker == <<"<tribe-context>">>

CloseMarker == <<"</tribe-context>">>

\* the sessions of the model (after the mapping of fetchRecentSessions; an
\* absent optional field is the empty string): a plain one, one without a
\* project, one with a branch and a duration, one whose summary has two
\* lines, the second of which starts like a bullet
SessionItems ==
  {[project |-> lit(<<"p">>), branch |-> EmptyString,
    duration |-> EmptyString, summary |-> EmptyString],
   [project |-> EmptyString, branch |-> EmptyString,
    duration |-> EmptyString, summary |-> lit(<<"s">>)],
   [project |-> lit(<<"p">>), branch |-> lit(<<"b">>),
    duration |-> lit(<<"9m">>), summary |-> EmptyString],
   [project |-> lit(<<"p">>), branch |-> EmptyString,
    duration |-> EmptyString, summary |-> <<<<"s">>, <<"- ", "t">>>>]}

\* the knowledge matches of the model (after the mapping of runKBSearch):
\* text of one line, text of more than 200 characters, text of two lines
\* the second of which starts like a bullet
KBItems ==
  {[category |-> EmptyString, text |-> lit(<<"t">>), long |-> FALSE],
   [category |-> lit(<<"c">>), text |-> lit(<<"t200">>), long |-> TRUE],
   [category |-> EmptyString, text |-> <<<<"t">>, <<"- ", "u">>>>,
    long |-> FALSE]}

\* the lists of at most n items of a set
ListsOf(S, n) == UNION {[1..k -> S] : k \in 0..n}

\* formatTimestamp returns "recently" or an age such as "5m ago"
formatTimestamp == lit(<<"5m ago">>)

formatSessions(sessions, depth) ==
  IF Len(sessions) = 0 THEN EmptyString
  ELSE LET line(s) ==
             concat(<<lit(<<"- ">>), formatTimestamp, lit(<<": ", "tool", " on ">>),
                      IF truthy(s.project) THEN s.project
                      ELSE lit(<<"unknown project">>),
                      IF truthy(s.duration)
                      THEN concat(<<lit(<<" (">>), s.duration, lit(<<")">>)>>)
                      ELSE EmptyString,
                      IF truthy(s.branch)
                      THEN cat(lit(<<", branch: ">>), s.branch)
                      ELSE EmptyString,
                      IF depth = "deep" /\ truthy(s.summary)
                      THEN concat(<<newline, lit(<<"    ">>), s.summary>>)
                      ELSE EmptyString>>)
       IN concat(<<lit(<<"Recent Activity:">>), newline,
                   join([j \in 1..Len(sessions) |-> line(sessions[j])],
                        newline)>>)

formatKBResults(results) ==
  IF Len(results) = 0 THEN EmptyString
  ELSE LET line(r) ==
             concat(<<lit(<<"- ">>),
                      IF truthy(r.category)
                      THEN concat(<<lit(<<"[">>), r.category, lit(<<"] ">>)>>)
                      ELSE EmptyString,
                      IF r.long THEN cat(r.text, lit(<<"...">>)) ELSE r.text>>)
       IN concat(<<lit(<<"Relevant Knowledge:">>), newline,
                   join([j \in 1..Len(results) |-> line(results[j])],
                        newline)>>)

detectActiveProject(sessions) ==
  IF Len(sessions) = 0 THEN EmptyString
  ELSE LET recent == sessions[1]
       IN IF truthy(recent.project)
          THEN concat(<<lit(<<"Active Project: ">>), recent.project,
                        IF truthy(recent.branch)
                        THEN concat(<<lit(<<" (branch: ">>), recent.branch,
                                      lit(<<")">>)>>)
                        ELSE EmptyString>>)
          ELSE EmptyString

\* the wrapper around the parts
wrap(parts) ==
  concat(<<lit(OpenMarker), newline, join(parts, cat(newline, newline)),
           newline, lit(CloseMarker)>>)

\* a buildContext that wraps whatever it has
block_unguarded(sessions, kbResults, depth) ==
  [fn |-> "buildContext", null |-> FALSE,
   text |-> wrap(pushed(<<formatSessions(sessions, depth),
                          formatKBResults(kbResults),
                          detectActiveProject(sessions)>>))]

\* buildContext from "If we have nothing useful, skip injection" on
block(sessions, kbResults, depth) ==
  LET parts == pushed(<<formatSessions(sessions, depth),
                        formatKBResults(kbResults),
                        detectActiveProject(sessions)>>)
  IN IF (Len(sessions) = 0 /\ Len(kbResults) = 0) \/ Len(parts) = 0
     THEN [fn |-> "buildContext", null |-> TRUE, text |-> EmptyString]
     ELSE [fn |-> "buildContext", null |-> FALSE, text |-> wrap(parts)]

\* the arguments of the block: what the two queries yielded, and the depth
BlockArgs ==
  [fn : {"buildContext"}, sessions : ListsOf(SessionItems, MaxItems),
   kbResults : ListsOf(KBItems, MaxItems), depth : ContextDepth]

InitBlock ==
  /\ InitStore
  /\ arg \in BlockArgs
  /\ res = NoCall

\* buildContext builds its block from what its queries yielded
Block ==
  /\ arg.fn = "buildContext"
  /\ res = NoCall
  /\ res' = block(arg.sessions, arg.kbResults, arg.depth)
  /\ UNCHANGED <<searched, arg, now, cache, disk, flights, gets, invs, ret, lastSet,
                 invDone, raised, overlapped, nCalls, restarted, flushed,
                 built, ctxVars>>

SpecBlock == InitBlock /\ [][Block]_vars

\* ------------------------------------------------------------------------
\* withTimeout as a race of a promise against a timer
\* ------------------------------------------------------------------------
\* the ceilings of the model, in the unit of `now`
MaxMs == 3

\* what every action of the race leaves alone
storeVars == <<searched, cache, disk, flights, gets, invs, ret, lastSet, invDone,
               raised, overlapped, nCalls, restarted, flushed, built, ctxVars>>

InitRace ==
  /\ InitStore
  /\ arg \in [fn : {"withTimeout"}, ms : 1..MaxMs]
  /\ res = NoCall

\* withTimeout(promise, ms, fallback) runs up to `await Promise.race`: the
\* timer is armed, the promise is pending
WithTimeout ==
  /\ arg.fn = "withTimeout"
  /\ res = NoCall
  /\ res' = [fn |-> "withTimeout", promise |-> "pending", timer |-> "armed",
             out |-> "none", start |-> now, at |-> 0, promiseAt |-> 0]
  /\ UNCHANGED <<arg, now, storeVars>>

\* clearTimeout(timer) of the finally block
clearTimeout(timer) == IF timer = "armed" THEN "cleared" ELSE timer

\* the promise settles (how: "resolved" or "rejected"); if the race is still
\* open it settles the same way, withTimeout clears the timer and returns
\* or throws; if withTimeout has returned, nothing else happens
PromiseSettles(how) ==
  /\ res.fn = "withTimeout"
  /\ res.promise = "pending"
  /\ res' = IF res.out = "none"
            THEN [res EXCEPT !.promise = how, !.promiseAt = now,
                             !.out = IF how = "resolved" THEN "value"
                                     ELSE "rejected",
                             !.at = now,
                             !.timer = clearTimeout(res.timer)]
            ELSE [res EXCEPT !.promise = how, !.promiseAt = now]
  /\ UNCHANGED <<arg, now, storeVars>>

\* the timer is due: its callback resolves the race with the fallback,
\* withTimeout returns it; the promise is left pending
TimerFires ==
  /\ res.fn = "withTimeout"
  /\ res.timer = "armed"
  /\ now - res.start >= arg.ms
  /\ res' = [res EXCEPT !.timer = clearTimeout("fired"),
                        !.out = "fallback", !.at = now]
  /\ UNCHANGED <<arg, now, storeVars>>

\* time passes; a due timer runs before the clock reaches the next unit
RaceTick ==
  /\ now < MaxTime
  /\ ~(res.fn = "withTimeout" /\ res.timer = "armed"
       /\ now - res.start >= arg.ms)
  /\ now' = now + 1
  /\ UNCHANGED <<arg, res, storeVars>>

NextRace ==
  \/ WithTimeout
  \/ \E how \in {"resolved", "rejected"} : PromiseSettles(how)
  \/ TimerFires
  \/ RaceTick

SpecRace == InitRace /\ [][NextRace]_vars

\* ------------------------------------------------------------------------
\* a query of the context builder whose subprocess outlives its ceiling
\* ------------------------------------------------------------------------
QueryFns == {"fetchRecentSessions", "runKBSearch"}

\* run() settles: exit code 0, another exit code, or a rejection
RunEnds == {"zero", "nonzero", "rejected"}

InitQuery ==
  /\ InitStore
  /\ arg \in [fn : QueryFns, ms : 1..MaxMs, depth : ContextDepth]
  /\ res = NoCall

\* the query calls run() and awaits withTimeout(run(...), ms, fallback)
CallQuery ==
  /\ arg.fn \in QueryFns
  /\ res = NoCall
  /\ res' = [fn |-> arg.fn, run |-> "pending", timer |-> "armed",
             out |-> "none", start |-> now]
  /\ UNCHANGED <<arg, now, storeVars>>

\* what the query returns once withTimeout gave it the result of run()
queryOut(how) ==
  CASE how = "zero" -> "parsed" [] how = "nonzero" -> "empty"
    [] OTHER -> "rejected"

\* a session memo written by whatever run() yields, whenever it yields it
sessionCacheAfter_always(open, fn, how, sc, t) ==
  IF fn = "fetchRecentSessions" /\ how = "zero"
  THEN [sessions |-> clock, fetchedAt |-> t, args |-> queryArgs(arg.depth),
        asked |-> clock]
  ELSE sc

\* the session memo after run() settled: fetchRecentSessions writes it when
\* withTimeout handed it an exit code 0, which it does only while the race
\* is open
sessionCacheAfter(open, fn, how, sc, t) ==
  IF open /\ fn = "fetchRecentSessions" /\ how = "zero"
  THEN [sessions |-> clock, fetchedAt |-> t, args |-> queryArgs(arg.depth),
        asked |-> clock]
  ELSE sc

\* the callback of execFile settles the promise of run(); while the race is
\* open withTimeout clears the timer and the query goes on with the result;
\* after the race only the handlers of Promise.race run, which do nothing
RunSettles(how) ==
  /\ res.fn \in QueryFns
  /\ res.run = "pending"
  /\ res' = IF res.out = "none"
            THEN [res EXCEPT !.run = how, !.out = queryOut(how),
                             !.timer = clearTimeout(res.timer)]
            ELSE [res EXCEPT !.run = how]
  /\ sessionCache' = sessionCacheAfter(res.out = "none", res.fn, how,
                                       sessionCache, now)
  /\ UNCHANGED <<arg, now, searched, cache, disk, flights, gets, invs, ret,
                 lastSet, invDone, raised, overlapped, nCalls, restarted,
                 flushed, built, builds, tools, clock, lastInval,
                 lastMutation>>

\* the timer is due: withTimeout returns the fallback, whose exit code is 1,
\* and the query returns []; run() is left pending
QueryTimerFires ==
  /\ res.fn \in QueryFns
  /\ res.timer = "armed"
  /\ now - res.start >= arg.ms
  /\ res' = [res EXCEPT !.timer = clearTimeout("fired"), !.out = "empty"]
  /\ UNCHANGED <<arg, now, storeVars>>

\* time passes; a due timer runs before the clock reaches the next unit
QueryTick ==
  /\ now < MaxTime
  /\ ~(res.fn \in QueryFns /\ res.timer = "armed"
       /\ now - res.start >= arg.ms)
  /\ now' = now + 1
  /\ UNCHANGED <<arg, res, storeVars>>

NextQuery ==
  \/ CallQuery
  \/ \E how \in RunEnds : RunSettles(how)
  \/ QueryTimerFires
  \/ QueryTick

SpecQuery == InitQuery /\ [][NextQuery]_vars

\* ------------------------------------------------------------------------
\* searchKB: the keyword searches and the merge of their results
\* ------------------------------------------------------------------------
\* extractSearchKeywords(query, 3): the searches of the model run for three
\* keywords
Keywords == 1..3

\* the document ids the upstream returns
DocIds == {"d1", "d2"}

\* the responses of the upstream, one list of ids per keyword, after the
\* mapping of runKBSearch (which keeps the first 5 entries)
Responses == [Keywords -> ListsOf(DocIds, MaxItems)]

\* the matches of a response, each with the keyword whose search returned it
matchesOf(response, kw) ==
  [j \in 1..Len(response) |-> [id |-> response[j], from |-> kw]]

\* for (const results of allResults) for (const match of results): the
\* matches in the order the two loops visit them
RECURSIVE visited(_)
visited(allResults) ==
  IF allResults = <<>> THEN <<>>
  ELSE Head(allResults) \o visited(Tail(allResults))

\* docMap after the loops: its entries in insertion order
RECURSIVE docMapOf(_, _)
docMapOf(matches, docMap) ==
  IF matches = <<>> THEN docMap
  ELSE LET match == Head(matches)
           hit == {j \in 1..Len(docMap) : docMap[j].match.id = match.id}
       IN docMapOf(Tail(matches),
            IF hit # {}
            THEN [j \in 1..Len(docMap) |->
                    IF j \in hit THEN [docMap[j] EXCEPT !.freq = @ + 1]
                    ELSE docMap[j]]
            ELSE Append(docMap, [match |-> match, freq |-> 1]))

\* .sort((a, b) => b.freq - a.freq): a stable sort, by insertion
RECURSIVE sortByFreq(_, _)
sortByFreq(entries, sorted) ==
  IF entries = <<>> THEN sorted
  ELSE LET e == Head(entries)
           before == Cardinality({j \in 1..Len(sorted) :
                                    sorted[j].freq >= e.freq})
       IN sortByFreq(Tail(entries),
            SubSeq(sorted, 1, before) \o <<e>>
              \o SubSeq(sorted, before + 1, Len(sorted)))

\* .slice(0, 5)
slice5(xs) == SubSeq(xs, 1, IF Len(xs) < 5 THEN Len(xs) ELSE 5)

\* "Merge results by doc ID, rank by match frequency" and "Sort by
\* frequency, return top 5"
merged(allResults) ==
  LET top == slice5(sortByFreq(docMapOf(visited(allResults), <<>>), <<>>))
  IN [j \in 1..Len(top) |-> top[j].match]

\* a Promise.all that lists the results in the order they arrived
collect_byArrival(results, order, responses) ==
  [j \in 1..Len(order) |-> matchesOf(responses[order[j]], order[j])]

\* Promise.all(keywords.map((kw) => runKBSearch(kw))): the results in the
\* order of the keywords
collect(results, order, responses) == results

InitMerge ==
  /\ InitStore
  /\ arg \in [fn : {"searchKB"}, responses : Responses]
  /\ res = NoCall

\* searchKB starts one runKBSearch per keyword
SearchKB ==
  /\ arg.fn = "searchKB"
  /\ res = NoCall
  /\ res' = [fn |-> "searchKB", pending |-> Keywords,
             results |-> [kw \in Keywords |-> <<>>], order |-> <<>>,
             done |-> FALSE, out |-> <<>>]
  /\ UNCHANGED <<arg, now, storeVars>>

\* the runKBSearch of one keyword returns
RunKBSearchReturns(kw) ==
  /\ res.fn = "searchKB"
  /\ kw \in res.pending
  /\ res' = [res EXCEPT !.pending = @ \ {kw},
                        !.results[kw] = matchesOf(arg.responses[kw], kw),
                        !.order = Append(@, kw)]
  /\ UNCHANGED <<arg, now, storeVars>>

\* Promise.all resolves; searchKB merges
Merge ==
  /\ res.fn = "searchKB"
  /\ res.pending = {}
  /\ ~res.done
  /\ res' = [res EXCEPT !.done = TRUE,
               !.out = merged(collect(res.results, res.order, arg.responses))]
  /\ UNCHANGED <<arg, now, storeVars>>

NextMerge ==
  \/ SearchKB
  \/ \E kw \in Keywords : RunKBSearchReturns(kw)
  \/ Merge

SpecMerge == InitMerge /\ [][NextMerge]_vars

\* ------------------------------------------------------------------------
\* extractSearchKeywords; here a string is the sequence of its characters
\* ------------------------------------------------------------------------
\* a prompt of the model has at most MaxTokens tokens
MaxTokens == 3

\* the raw tokens of the prompts of the model: stop-words in two spellings,
\* a short stop-word, a keyword in two spellings, a longer keyword, a token
\* that punctuation cuts into short pieces, a token of punctuation only
RawTokens ==
  {<<"t", "h", "e">>, <<"T", "h", "e">>, <<"i", "s">>, <<"j", "w", "t">>,
   <<"J", "W", "T">>, <<"a", "u", "t", "h">>, <<"a", ".", "b">>, <<"!", "!">>}

\* the entries of STOP_WORDS that the characters of RawTokens can spell
STOP_WORDS == {<<"t", "h", "e">>, <<"i", "s">>, <<"a">>}

\* the tokens with one space between them, after a leading space if lead
RECURSIVE spaced(_)
spaced(tokens) ==
  IF tokens = <<>> THEN <<>>
  ELSE IF Len(tokens) = 1 THEN tokens[1]
  ELSE tokens[1] \o <<" ">> \o spaced(Tail(tokens))

promptOf(lead, tokens) == (IF lead THEN <<" ">> ELSE <<>>) \o spaced(tokens)

\* c.toLowerCase()
toLowerCase(c) ==
  CASE c = "T" -> "t" [] c = "J" -> "j" [] c = "W" -> "w" [] OTHER -> c

\* .replace(/[^a-z0-9\s-]/g, " ") on one character
replaceOther(c) ==
  IF c \in {"t", "h", "e", "i", "s", "j", "w", "a", "u", "b", " ", "-"}
  THEN c ELSE " "

\* str.split(/\s+/)
RECURSIVE splitFrom(_, _, _, _)
splitFrom(str, done, cur, gap) ==
  IF str = <<>> THEN Append(done, cur)
  ELSE IF Head(str) = " "
  THEN IF gap THEN splitFrom(Tail(str), done, cur, TRUE)
       ELSE splitFrom(Tail(str), Append(done, cur), <<>>, TRUE)
  ELSE splitFrom(Tail(str), done, Append(cur, Head(str)), FALSE)

split(str) == splitFrom(str, <<>>, <<>>, FALSE)

\* str.trim()
RECURSIVE trimStart(_)
trimStart(str) ==
  IF str # <<>> /\ Head(str) = " " THEN trimStart(Tail(str)) ELSE str

RECURSIVE trimEnd(_)
trimEnd(str) ==
  IF str # <<>> /\ str[Len(str)] = " "
  THEN trimEnd(SubSeq(str, 1, Len(str) - 1)) ELSE str

trim(str) == trimEnd(trimStart(str))

\* .filter((w) => w.length >= 3 && !STOP_WORDS.has(w))
RECURSIVE filterWords(_)
filterWords(ws) ==
  IF ws = <<>> THEN <<>>
  ELSE IF Len(Head(ws)) >= 3 /\ Head(ws) \notin STOP_WORDS
  THEN <<Head(ws)>> \o filterWords(Tail(ws))
  ELSE filterWords(Tail(ws))

\* const words = prompt.toLowerCase().replace(...).split(...).filter(...)
wordsOf(prompt) ==
  filterWords(split([j \in 1..Len(prompt) |->
                       replaceOther(toLowerCase(prompt[j]))]))

\* a fallback to the first token of the lowered, cleaned prompt
fallbackOf_cleaned(prompt) ==
  LET first == split(trim([j \in 1..Len(prompt) |->
                             replaceOther(toLowerCase(prompt[j]))]))[1]
  IN IF first # <<>> THEN first ELSE prompt

\* prompt.trim().split(/\s+/)[0] || prompt
fallbackOf(prompt) ==
  LET first == split(trim(prompt))[1]
  IN IF first # <<>> THEN first ELSE prompt

\* a Map that takes every scored word as a new key
RECURSIVE seenOf_noDedupe(_, _)
seenOf_noDedupe(scored, seen) ==
  IF scored = <<>> THEN seen
  ELSE seenOf_noDedupe(Tail(scored), Append(seen, Head(scored)))

\* "Deduplicate, keeping highest score": the Map `seen` in insertion order
RECURSIVE seenOf(_, _)
seenOf(scored, seen) ==
  IF scored = <<>> THEN seen
  ELSE LET e == Head(scored)
           hit == {j \in 1..Len(seen) : seen[j].word = e.word}
       IN seenOf(Tail(scored),
            IF hit = {} THEN Append(seen, e)
            ELSE [j \in 1..Len(seen) |->
                    IF j \in hit /\ e.score > seen[j].score
                    THEN e ELSE seen[j]])

\* .sort((a, b) => b[1] - a[1]): a stable sort, by insertion
RECURSIVE sortByScore(_, _)
sortByScore(entries, sorted) ==
  IF entries = <<>> THEN sorted
  ELSE LET e == Head(entries)
           before == Cardinality({j \in 1..Len(sorted) :
                                    sorted[j].score >= e.score})
       IN sortByScore(Tail(entries),
            SubSeq(sorted, 1, before) \o <<e>>
              \o SubSeq(sorted, before + 1, Len(sorted)))

extractSearchKeywords(prompt, count) ==
  LET words == wordsOf(prompt)
      scored == [j \in 1..Len(words) |->
                   [word |-> words[j],
                    score |-> Len(words[j]) * 10 + (Len(words) - (j - 1))]]
      unique == sortByScore(seenOf(scored, <<>>), <<>>)
  IN IF Len(words) = 0 THEN <<fallbackOf(prompt)>>
     ELSE [j \in 1..(IF Len(unique) < count THEN Len(unique) ELSE count) |->
             unique[j].word]

InitKeywords ==
  /\ InitStore
  /\ arg \in {[fn |-> "extractSearchKeywords", prompt |-> promptOf(lead, ts),
               count |-> n] :
                lead \in BOOLEAN, ts \in ListsOf(RawTokens, MaxTokens),
                n \in 1..3}
  /\ res = NoCall

ExtractSearchKeywords ==
  /\ arg.fn = "extractSearchKeywords"
  /\ res = NoCall
  /\ res' = [fn |-> "extractSearchKeywords",
             out |-> extractSearchKeywords(arg.prompt, arg.count)]
  /\ UNCHANGED <<arg, now, storeVars>>

SpecKeywords == InitKeywords /\ [][ExtractSearchKeywords]_vars

\* a long prompt of the model has at most MaxWords words
MaxWords == 11

\* long prompts: words of three and of four characters that survive the
\* filter, in any order
LongTokens == {<<"j", "w", "t">>, <<"a", "u", "t", "h">>}

InitLongPrompt ==
  /\ InitStore
  /\ arg \in {[fn |-> "extractSearchKeywords", prompt |-> promptOf(FALSE, ts),
               count |-> n] :
                ts \in ListsOf(LongTokens, MaxWords), n \in 1..3}
  /\ res = NoCall

SpecLongPrompt == InitLongPrompt /\ [][ExtractSearchKeywords]_vars

\* the extension's process: buildContext calls, invalidateCache, the
\* mutating tools, and the cache tasks they leave behind
NextCtx ==
  \/ \E in \in BuildInputs : BuildContext(in[1], in[2])
  \/ \E b \in 1..MaxCalls, installed \in BOOLEAN : EnsureInstalled(b, installed)
  \/ \E b \in 1..MaxCalls, o \in SessionOutcomes :
        FetchRecentSessionsDone(b, o)
  \/ \E n \in 1..MaxCalls : GetRead(getCache, n)
  \/ \E b \in 1..MaxCalls, n \in 1..MaxCalls : SearchKBGet(b, n)
  \/ \E b \in 1..MaxCalls, o \in RunOutcomes : RunKBSearchDone(b, o)
  \/ \E b \in 1..MaxCalls : BuildContextReturn(b)
  \/ InvalidateCache
  \/ \E name \in Mutators : Execute(name)
  \/ \E n \in 1..MaxCalls, succeeded \in BOOLEAN : ExecuteDone(n, succeeded)
  \/ \E n \in 1..(2 * MaxCalls) : InvalidateRm(getCache, n)
  \/ \E ns \in CacheNamespace : TimerFired(getCache, ns)
  \/ \E n \in 1..MaxCalls : FlushRead(getCache, n)
  \/ \E n \in 1..MaxCalls : FlushMerge(getCache, n)
  \/ \E n \in 1..MaxCalls : FlushWrite(getCache, n)

SpecCtx == InitCache /\ [][NextCtx]_vars

\* the interval callback of the tribe-sync service reaches invalidateCache()
\* after its subprocess, whatever buildContext calls are in flight
SyncInvalidate ==
  /\ nCalls < MaxCalls
  /\ nCalls' = nCalls + 1
  /\ invalidateCache
  /\ ret' = NoGet
  /\ built' = NoResult
  /\ UNCHANGED <<arg, res, restarted, now, disk, flights, gets, lastSet,
                 invDone, raised, overlapped, builds, tools, lastMutation>>

\* the session memo over time: buildContext calls with a prompt too short
\* for a knowledge search, at every depth, and the sync service
NextMemo ==
  \/ \E depth \in ContextDepth : BuildContext("y", depth)
  \/ \E b \in 1..MaxCalls, installed \in BOOLEAN : EnsureInstalled(b, installed)
  \/ \E b \in 1..MaxCalls, o \in SessionOutcomes :
        FetchRecentSessionsDone(b, o)
  \/ \E b \in 1..MaxCalls : BuildContextReturn(b)
  \/ SyncInvalidate
  \/ \E n \in 1..(2 * MaxCalls) : InvalidateRm(getCache, n)
  \/ Tick

SpecMemo == InitCache /\ [][NextMemo]_vars

\* the continuations of buildContext call b: each of its awaits ends, the
\* subprocess calls at the latest when the timer of withTimeout fires
BuildStep(b) ==
  \/ \E installed \in BOOLEAN : EnsureInstalled(b, installed)
  \/ \E o \in SessionOutcomes : FetchRecentSessionsDone(b, o)
  \/ \E n \in 1..MaxCalls : SearchKBGet(b, n)
  \/ \E o \in RunOutcomes : RunKBSearchDone(b, o)
  \/ BuildContextReturn(b)

\* the event loop runs every continuation that is ready, and readFile ends
SpecCtxFair ==
  /\ SpecCtx
  /\ \A b \in 1..MaxCalls : WF_vars(BuildStep(b))
  /\ WF_vars(\E n \in 1..MaxCalls : GetRead(getCache, n))

\* ------------------------------------------------------------------------
\* Properties of the cache
\* ------------------------------------------------------------------------
\* what get(namespace, key) of instance i returns when it runs to completion
\* with no other task in between: the value and the tier it comes from
Readable(i, namespace, h) ==
  IF l1Hit(cache[i].l1[<<namespace, h>>], now)
  THEN cache[i].l1[<<namespace, h>>]
  ELSE l2Lookup(disk[namespace], h, now)

\* no timer armed, nothing dirty, no flush in flight
Quiet(i) ==
  /\ \A ns \in CacheNamespace : cache[i].armed[ns] = 0
  /\ cache[i].l2Dirty = {}
  /\ flights[i] = <<>>

\* C1: once invalidate(ns) has returned (and until the next set in ns), no
\* key of ns is readable in either tier, whatever flush or get was pending
\* or in flight when invalidate ran.
C1_InvalidateLeavesNothing ==
  \A i \in Instances : \A ns \in invDone[i] : \A h \in Hashes :
    ~Present(Readable(i, ns, h))

\* C2: a value returned by get comes from an entry that is unexpired on the
\* tier it is read from, and a get that meets an expired (or no) L1 entry
\* leaves no L1 entry under that key when it goes on to the disk.
C2_GetNeverReturnsExpired ==
  /\ [](ret.tier \in {"l1", "l2"} => ret.expiresAt > now)
  /\ [][\A i \in Instances :
          Len(gets'[i]) > Len(gets[i]) =>
            LET g == gets'[i][Len(gets'[i])]
            IN ~Present(cache'[i].l1[cacheKey(g.ns, g.key)])]_vars

\* a get returned a value from the persisted tier after the fast-tier entry
\* of the key had expired
C2_Witness ==
  /\ ret.tier = "l2"
  /\ now >= L1_TTLS[ret.ns]
  /\ Present(lastSet[ret.inst][cacheKey(ret.ns, ret.key)])

\* C3: after set(ns, k, v), with no invalidate of ns and no later set of
\* (ns, k), a get of (ns, k) before the fast-tier expiry returns v; and a
\* get returns nothing once both expiries have passed.
C3_SetThenGet ==
  /\ \A i \in Instances : \A ck \in CacheKeys :
       (Present(lastSet[i][ck]) /\ now < lastSet[i][ck].expiresAt) =>
         /\ l1Hit(cache[i].l1[ck], now)
         /\ cache[i].l1[ck].value = lastSet[i][ck].value
  /\ ret.tier \in {"l1", "l2"} => ret.expiresAt > now

\* C7: no set is lost by debouncing: once the timers have fired and the
\* flushes have returned, every value that was set, not invalidated and not
\* expired is in the persisted unit of its namespace.
C7_NoSetLost ==
  \A i \in Instances :
    Quiet(i) =>
      \A ck \in CacheKeys :
        (Present(lastSet[i][ck]) /\ now < lastSet[i][ck].expiresAt) =>
          /\ disk[ck[1]].kind = "ok"
          /\ disk[ck[1]].entries[ck[2]].value = lastSet[i][ck].value

\* C8: a namespace never has two timers armed, a timer is armed only for a
\* dirty namespace, and every timer that fires starts exactly one flushL2,
\* however many sets were made while it was armed.
C8_OneFlushPerTimer ==
  /\ [](\A i \in Instances : \A ns \in CacheNamespace :
          /\ cache[i].armed[ns] <= 1
          /\ cache[i].armed[ns] = 1 => ns \in cache[i].l2Dirty)
  /\ [][\A i \in Instances : \A ns \in CacheNamespace :
          cache'[i].armed[ns] < cache[i].armed[ns] =>
            /\ Len(flights'[i]) = Len(flights[i]) + 1
            /\ flights'[i][Len(flights'[i])].ns = ns
            /\ cache'[i].armed[ns] = 0]_vars

\* two sets of one namespace were made under one armed timer, the timer has
\* fired and its single flush is under way
C8_Witness ==
  /\ nCalls = 2
  /\ Present(cache["A"].l1[<<"kb", md5["x"]>>])
  /\ Present(cache["A"].l1[<<"kb", md5["y"]>>])
  /\ cache["A"].armed["kb"] = 0
  /\ "kb" \notin cache["A"].l2Dirty
  /\ Len(flights["A"]) = 1
  /\ disk["kb"].kind = "missing"

\* the keys of a namespace that exactly one client has set, with its value
OnlySetBy(i, ck) ==
  /\ Present(lastSet[i][ck])
  /\ \A j \in Instances \ {i} : ~Present(lastSet[j][ck])

BothPersisted ==
  \A i \in Instances : \A ck \in CacheKeys :
    (OnlySetBy(i, ck) /\ now < lastSet[i][ck].expiresAt) =>
      /\ disk[ck[1]].kind = "ok"
      /\ disk[ck[1]].entries[ck[2]].value = lastSet[i][ck].value

\* C9 as stated: once the flushes of both clients have returned, the unit
\* holds the entries of both, for every interleaving of the flushes.
C9_BothClientsPersisted ==
  (\A i \in Instances : Quiet(i)) => BothPersisted

\* C9 amended: the same, for flushes that do not overlap (no flush wrote a
\* unit that another write had changed since the flush read it).
C9_NonOverlappingFlushesMerge ==
  ((\A i \in Instances : Quiet(i)) /\ ~overlapped) => BothPersisted

\* both clients have set a key of their own and both flushes have returned,
\* one after the other
C9_Witness ==
  /\ \A i \in Instances : Quiet(i)
  /\ ~overlapped
  /\ OnlySetBy("A", <<"kb", md5["x"]>>)
  /\ OnlySetBy("B", <<"kb", md5["y"]>>)
  /\ disk["kb"].kind = "ok"

\* C10: a flush never raises, whatever the unit holds, and over a unit that
\* is missing or malformed it writes exactly the unexpired L1 entries.
C10_FlushToleratesAnyUnit ==
  /\ ~raised
  /\ \A i \in Instances : \A n \in 1..Len(flights[i]) :
       (flights[i][n].pc = "write" /\ flights[i][n].seen.kind # "ok") =>
         \A h \in Hashes :
           Present(flights[i][n].existing.entries[h]) <=>
             h \in flights[i][n].own

\* ------------------------------------------------------------------------
\* Properties of context assembly
\* ------------------------------------------------------------------------
\* C4: whatever the subprocesses do (success, non-zero exit, timeout,
\* malformed output, rejection) and whatever the cache holds, no buildContext
\* call ends rejected: it returns a block or null.
C4_BuildContextNeverRejects == built.result # "rejected"

\* the data a returned call was given is no older than clock value c
ServedSince(c) ==
  /\ built.kbData = 0 \/ built.kbData >= c
  /\ built.sessData = 0 \/ built.sessData >= c

\* C5: every mutation of the upstream data (tribe_kb_save, tribe_kb_delete,
\* a sync run) is followed by invalidateCache, so no call that begins after
\* the mutation is given data cached before it.
C5_MutationsInvalidate ==
  /\ lastInval >= lastMutation
  /\ (built.result \in {"null", "block"}
        /\ lastMutation > 0 /\ built.start >= lastMutation) =>
       ServedSince(lastMutation)

\* C6: a buildContext call that begins after invalidateCache() has returned
\* is given no data cached before that invalidateCache, even while the
\* deletions it started are still under way.
C6_RequeryAfterInvalidate ==
  (built.result \in {"null", "block"}
     /\ lastInval > 0 /\ built.start >= lastInval) =>
    ServedSince(lastInval)

\* ------------------------------------------------------------------------
\* Further properties of the cache
\* ------------------------------------------------------------------------
\* C11: a failing disk call never rejects a cache call.  A get whose read
\* failed returns absent and leaves L1 alone; a flush whose write ended
\* (landed or failed) leaves the cache object alone; an invalidate whose rm
\* ended (landed or failed) leaves L1 as its sweep left it and marks the
\* namespace not loaded.
C11_IoFailureNeverSurfaces ==
  /\ [](~raised)
  /\ [][\A i \in Instances : \A n \in 1..Len(gets[i]) :
          (gets[i][n].pc = "parse" /\ gets[i][n].data.kind = "error"
             /\ gets'[i] = RemoveAt(gets[i], n)) =>
            (ret'.tier = "miss" /\ cache'[i].l1 = cache[i].l1)]_vars
  /\ [][\A i \in Instances : \A n \in 1..Len(flights[i]) :
          (flights[i][n].pc = "write"
             /\ flights'[i] = RemoveAt(flights[i], n)) =>
            cache'[i] = cache[i]]_vars
  /\ [][\A i \in Instances : \A n \in 1..Len(invs[i]) :
          invs'[i] = RemoveAt(invs[i], n) =>
            (cache'[i].l1 = cache[i].l1
               /\ invs[i][n].ns \notin cache'[i].l2Loaded)]_vars

\* the one set of the run was flushed, the write failed: the value is in L1
\* only, nothing is left to run and no call was rejected
C11_Witness ==
  /\ nCalls = 1
  /\ Present(cache["A"].l1[<<"kb", md5["x"]>>])
  /\ Quiet("A")
  /\ disk["kb"].kind = "missing"
  /\ ~raised

\* the step leaves every entry of the other namespaces as it was, in L1 of
\* instance i and on disk
Frame(i, namespace) ==
  /\ \A ck \in CacheKeys :
       ck[1] # namespace => cache'[i].l1[ck] = cache[i].l1[ck]
  /\ \A n2 \in CacheNamespace \ {namespace} : disk'[n2] = disk[n2]

\* C12: namespaces do not interfere: a step of set(n1, ...), of
\* invalidate(n1) up to its rm, and of the rm of invalidate(n1) changes no
\* entry of another namespace in either tier.
C12_NamespacesDoNotInterfere ==
  [][\A i \in Instances :
       /\ \A ck \in CacheKeys :
            (lastSet'[i][ck] # lastSet[i][ck] /\ Present(lastSet'[i][ck])) =>
              Frame(i, ck[1])
       /\ Len(invs'[i]) > Len(invs[i]) =>
            Frame(i, invs'[i][Len(invs'[i])].ns)
       /\ \A n \in 1..Len(invs[i]) :
            invs'[i] = RemoveAt(invs[i], n) => Frame(i, invs[i][n].ns)]_vars

\* the raw key x was set in kb and in sessions, kb was flushed, sessions was
\* invalidated: the kb entry is still in both tiers
C12_Witness ==
  /\ "sessions" \in invDone["A"]
  /\ "sessions" \in cache["A"].l2Dirty
  /\ Present(cache["A"].l1[<<"kb", md5["x"]>>])
  /\ ~Present(cache["A"].l1[<<"sessions", md5["x"]>>])
  /\ disk["kb"].kind = "ok"
  /\ Present(disk["kb"].entries[md5["x"]])
  /\ disk["sessions"].kind = "missing"

\* C13: once invalidateAll has returned (and until the next set), no key of
\* any namespace has an unexpired entry in L1 or in its persisted unit,
\* whatever timer was pending when invalidateAll ran.
C13_InvalidateAllLeavesNothing ==
  \A i \in Instances :
    invDone[i] = CacheNamespace =>
      \A ck \in CacheKeys :
        /\ ~l1Hit(cache[i].l1[ck], now)
        /\ ~Present(l2Lookup(disk[ck[1]], ck[2], now))

\* C14: a get that misses L1 and finds an unexpired entry in what it read
\* from the persisted unit returns that entry's value and leaves an L1 entry
\* with that value and expiry = now + L1 TTL, which the next get hits.
C14_PromotionOnPersistedHit ==
  [][\A i \in Instances : \A n \in 1..Len(gets[i]) :
       LET g == gets[i][n]
           ck == cacheKey(g.ns, g.key)
           entry == l2Lookup(g.data, md5[g.key], now)
       IN (g.pc = "parse" /\ Present(entry)
             /\ gets'[i] = RemoveAt(gets[i], n)) =>
            /\ ret'.tier = "l2"
            /\ ret'.value = entry.value
            /\ cache'[i].l1[ck] = [value |-> entry.value,
                                   expiresAt |-> now + L1_TTLS[g.ns]]
            /\ l1Hit(cache'[i].l1[ck], now')]_vars

\* a get has just returned a value from the persisted unit, some time after
\* the value was set, and the L1 entry it left expires one L1 TTL from now
C14_Witness ==
  /\ ret.tier = "l2"
  /\ now > 0
  /\ cache[ret.inst].l1[cacheKey(ret.ns, ret.key)] =
       [value |-> ret.value, expiresAt |-> now + L1_TTLS[ret.ns]]
  /\ ret.expiresAt > now + L1_TTLS[ret.ns]

\* C15 as stated: a value stored by one set, and not set again, is promoted
\* from the persisted unit to L1 at most once.
C15_AtMostOnePromotion ==
  \A i \in Instances : \A ck \in CacheKeys : cache[i].promoted[ck] <= 1

\* C15 amended: a value may be promoted again and again; each promotion is
\* made by a get that found no unexpired L1 entry when it began and that
\* read an entry still unexpired in the persisted unit, and it is the only
\* way a value moves between the tiers towards L1.
C15_PromotionOnlyOfUnexpired ==
  [][\A i \in Instances : \A ck \in CacheKeys :
       cache'[i].promoted[ck] > cache[i].promoted[ck] =>
         /\ cache'[i].promoted[ck] = cache[i].promoted[ck] + 1
         /\ Len(gets'[i]) = Len(gets[i]) - 1
         /\ ret'.tier = "l2"
         /\ cacheKey(ret'.ns, ret'.key) = ck
         /\ ret'.expiresAt > now
         /\ cache'[i].l1[ck].value = ret'.value]_vars

\* one value, set once, has been promoted twice
C15_Witness ==
  /\ ret.tier = "l2"
  /\ cache[ret.inst].promoted[cacheKey(ret.ns, ret.key)] = 2
  /\ lastSet[ret.inst][cacheKey(ret.ns, ret.key)].value = ret.value

\* C16: after a restart, for every entry that a completed flush wrote and
\* whose persisted expiry has not passed, a get of the new instance returns
\* the value the flush wrote.
C16_PersistedSurvivesRestart ==
  restarted =>
    \A ck \in CacheKeys :
      (Present(flushed[ck]) /\ now < flushed[ck].expiresAt) =>
        Readable("B", ck[1], ck[2]).value = flushed[ck].value

\* C17: in every namespace the L1 TTL is at most the L2 TTL, and every entry
\* that the merge loop of a flush assigns receives a persisted expiresAt that
\* is at least the expiresAt the same entry has in L1 at the time of the merge.
C17_PersistedOutlivesFast ==
  /\ \A ns \in CacheNamespace : L1_TTLS[ns] <= L2_TTLS[ns]
  /\ [][\A i \in Instances : \A n \in 1..MaxCalls :
          (FlushMerge(i, n) /\ ~mergeThrows(flights[i][n].existing)) =>
            \A h \in flights'[i][n].own :
              flights'[i][n].existing.entries[h].expiresAt
                >= cache[i].l1[<<flights[i][n].ns, h>>].expiresAt]_vars

\* a flush has merged, some minutes after the set, an entry whose persisted
\* expiry is later than its L1 expiry
C17_Witness ==
  \E i \in Instances : \E n \in 1..Len(flights[i]) :
    /\ flights[i][n].pc = "write"
    /\ now > 0
    /\ \E h \in flights[i][n].own :
         /\ l1Hit(cache[i].l1[<<flights[i][n].ns, h>>], now)
         /\ flights[i][n].existing.entries[h].expiresAt = now + L2_TTLS[flights[i][n].ns]
         /\ flights[i][n].existing.entries[h].expiresAt
              > cache[i].l1[<<flights[i][n].ns, h>>].expiresAt

\* ------------------------------------------------------------------------
\* Properties of buildContext
\* ------------------------------------------------------------------------
\* the subprocesses and cache reads that buildContext calls have running
running(bs) ==
  {<<b, "sessions">> : b \in {c \in 1..MaxCalls : bs[c].sess = "pending"}}
  \cup {<<b, "kb">> : b \in {c \in 1..MaxCalls : bs[c].kb \in {"get", "search"}}}

\* C18: when the CLI is not installed, buildContext returns null without
\* raising, starts no subprocess and no cache read, and leaves the session
\* memo, L1, the dirty set, the flush timers and the persisted units as
\* they are.
C18_NotInstalledReturnsNull ==
  [][\A b \in 1..MaxCalls :
       EnsureInstalled(b, FALSE) =>
         /\ built'.result = "null"
         /\ builds'[b] = NoBuild
         /\ running(builds') \subseteq running(builds)
         /\ UNCHANGED <<sessionCache, cache, disk, gets, flights, invs,
                        raised>>]_vars

\* buildContext has returned null for a missing CLI while the session memo
\* and the kb cache hold what an earlier call fetched
C18_Witness ==
  /\ built.result = "null"
  /\ ~built.installed
  /\ sessionCache # NullContext
  /\ \E ck \in CacheKeys : ck[1] = "kb" /\ Present(cache[getCache].l1[ck])
  /\ "kb" \in cache[getCache].l2Dirty

\* the buildContext calls that have not returned
active == {b \in 1..MaxCalls : builds[b].pc \in {"access", "queries"}}

\* call b goes one step without a knowledge search, without a get or set of
\* the kb cache, and without knowledge in what it returns
skipsKB(b) ==
  /\ EnsureInstalled(b, TRUE) => UNCHANGED <<cache, gets>>
  /\ builds'[b].kb \in {"none", "skipped"}
  /\ builds'[b].kbData = 0
  /\ \A n \in 1..Len(gets'[getCache]) : gets'[getCache][n].call # b
  /\ BuildContextReturn(b) => built'.kbData = 0

\* C19: a buildContext call at depth minimal never runs a knowledge search,
\* never reads or writes the kb cache, and returns no knowledge section.
C19_MinimalSkipsKnowledge ==
  [][\A b \in active : builds[b].depth = "minimal" => skipsKB(b)]_vars

\* a call at depth minimal has returned a block without knowledge although
\* the kb cache holds an unexpired entry for its prompt
C19_Witness ==
  /\ built.result = "block"
  /\ built.depth = "minimal"
  /\ promptLength[built.prompt] >= 5
  /\ built.kbData = 0
  /\ l1Hit(cache[getCache].l1[cacheKey("kb", built.prompt)], now)

\* C20: a buildContext call with a prompt shorter than 5 characters, at any
\* depth, makes no knowledge search and no access to the kb cache, and
\* returns no knowledge section.
C20_ShortPromptSkipsKnowledge ==
  [][\A b \in active :
       promptLength[builds[b].prompt] < 5 => skipsKB(b)]_vars

\* a call with a short prompt at a depth other than minimal has returned a
\* block of sessions without knowledge
C20_Witness ==
  /\ built.result = "block"
  /\ promptLength[built.prompt] < 5
  /\ built.depth # "minimal"
  /\ built.sessData > 0
  /\ built.kbData = 0

\* ------------------------------------------------------------------------
\* Properties of the block of buildContext
\* ------------------------------------------------------------------------
\* the lines of a block between its first and its last line
inner(text) == SubSeq(text, 2, Len(text) - 1)

\* a line that labels a section
isLabel(line) ==
  \/ line \in {<<"Recent Activity:">>, <<"Relevant Knowledge:">>}
  \/ line # <<>> /\ line[1] = "Active Project: "

\* C21: buildContext returns null whenever both the sessions and the
\* knowledge matches are empty, and every non-null result has at least one
\* labeled section between its markers.
C21_NoEmptyWrapper ==
  res.fn = "buildContext" =>
    /\ (Len(arg.sessions) = 0 /\ Len(arg.kbResults) = 0) => res.null
    /\ ~res.null =>
         \E j \in 1..Len(inner(res.text)) : isLabel(inner(res.text)[j])

\* a block has been returned for sessions without knowledge matches
C21_Witness ==
  /\ res.fn = "buildContext"
  /\ ~res.null
  /\ Len(arg.sessions) > 0
  /\ Len(arg.kbResults) = 0

\* ------------------------------------------------------------------------
\* Properties of the bounded calls
\* ------------------------------------------------------------------------
\* C22: a subprocess call that hits its ceiling only empties its own
\* contribution: the sessions query that times out resolves to an empty list
\* and leaves the knowledge search as it is, a keyword search that times out
\* leaves the sessions and the hits of the other keywords as they are, and a
\* call one of whose subprocesses timed out, and none of whose queries
\* rejected, returns a block with all the data the others yielded.
C22_TimeoutEmptiesOneCall ==
  [][\A b \in active :
       /\ FetchRecentSessionsDone(b, "timeout") =>
            /\ builds'[b].sess = "resolved"
            /\ builds'[b].sessData = 0
            /\ builds'[b].kb = builds[b].kb
            /\ builds'[b].kbHit = builds[b].kbHit
            /\ builds'[b].kbData = builds[b].kbData
       /\ RunKBSearchDone(b, "timeout") =>
            /\ builds'[b].sess = builds[b].sess
            /\ builds'[b].sessData = builds[b].sessData
            /\ builds'[b].kb \in {"search", "resolved"}
            /\ builds[b].kbHit =>
                 builds'[b].kbHit \/ builds'[b].kbData > 0
       /\ (/\ BuildContextReturn(b)
           /\ builds[b].timedOut
           /\ "rejected" \notin {builds[b].sess, builds[b].kb}) =>
            /\ built'.result # "rejected"
            /\ built'.sessData = builds[b].sessData
            /\ built'.kbData = builds[b].kbData
            /\ (builds[b].sessData > 0 \/ builds[b].kbData > 0) =>
                 built'.result = "block"]_vars

\* a call whose sessions query timed out has returned a block with the
\* knowledge its searches found
C22_Witness ==
  /\ built.result = "block"
  /\ built.timedOut
  /\ built.sessData = 0
  /\ built.kbData > 0

\* C23: withTimeout settles no later than its deadline, with the result of
\* the promise when the promise resolved before the deadline and with the
\* fallback when it did not resolve by the deadline; no timer is left armed
\* once withTimeout has settled.
C23_WithTimeoutSettles ==
  res.fn = "withTimeout" =>
    LET deadline == res.start + arg.ms
    IN /\ now > deadline => res.out # "none"
       /\ res.out # "none" =>
            /\ res.at <= deadline
            /\ res.timer # "armed"
            /\ (res.promise = "resolved" /\ res.promiseAt < deadline) =>
                 res.out = "value"
            /\ ~(res.promise = "resolved" /\ res.promiseAt <= deadline) =>
                 res.out = "fallback"
            /\ res.out \in {"value", "fallback"}

\* ------------------------------------------------------------------------
\* Properties of the merge of searchKB
\* ------------------------------------------------------------------------
\* the keywords whose search returned the document
termsOf(id) ==
  {kw \in Keywords :
     \E j \in 1..Len(arg.responses[kw]) : arg.responses[kw][j] = id}

\* C24: in the merged result a document returned by the searches of more
\* distinct keywords comes before one returned by fewer, no id appears
\* twice, and the result has at most 5 items.
C24_RankedByDistinctTerms ==
  (res.fn = "searchKB" /\ res.done) =>
    /\ Len(res.out) <= 5
    /\ \A j, k \in 1..Len(res.out) :
         /\ j # k => res.out[j].id # res.out[k].id
         /\ Cardinality(termsOf(res.out[j].id))
              > Cardinality(termsOf(res.out[k].id)) => j < k

\* C25: the merged result is the merge of the responses in the order of the
\* keywords, in whatever order the searches returned.
C25_MergeIgnoresCompletionOrder ==
  (res.fn = "searchKB" /\ res.done) =>
    res.out = merged([kw \in Keywords |->
                        matchesOf(arg.responses[kw], kw)])

\* the searches returned in another order than that of the keywords, with
\* different responses, and the merge is not empty
C25_Witness ==
  /\ res.fn = "searchKB"
  /\ res.done
  /\ res.order = <<3, 1, 2>>
  /\ arg.responses[1] # arg.responses[3]
  /\ Len(res.out) = 2

\* ------------------------------------------------------------------------
\* Properties of the kb cache of searchKB
\* ------------------------------------------------------------------------
\* C26: once a buildContext call has returned with the result of searchKB
\* for a prompt, and until the next invalidateCache, no call with the same
\* prompt runs a knowledge-search subprocess.
C26_RepeatedPromptIsCacheHit ==
  \A b \in active :
    builds[b].prompt \in searched => builds[b].kb # "search"

\* ------------------------------------------------------------------------
\* The layout of the block
\* ------------------------------------------------------------------------
\* the section a line labels
labelKind(line) ==
  IF line = <<"Recent Activity:">> THEN "activity"
  ELSE IF line = <<"Relevant Knowledge:">> THEN "knowledge"
  ELSE IF line # <<>> /\ line[1] = "Active Project: " THEN "project"
  ELSE "none"

\* the sections of a sequence of lines, in their order
RECURSIVE sectionsOf(_)
sectionsOf(lines) ==
  IF lines = <<>> THEN <<>>
  ELSE IF labelKind(Head(lines)) # "none"
  THEN <<labelKind(Head(lines))>> \o sectionsOf(Tail(lines))
  ELSE sectionsOf(Tail(lines))

\* the sections the block of these arguments is to have
expectedSections(sessions, kbResults) ==
  (IF Len(sessions) > 0 THEN <<"activity">> ELSE <<>>)
  \o (IF Len(kbResults) > 0 THEN <<"knowledge">> ELSE <<>>)
  \o (IF Len(sessions) > 0 /\ truthy(sessions[1].project)
      THEN <<"project">> ELSE <<>>)

\* the number of bullet lines of the section of the given kind
bulletsOf(lines, kind) ==
  LET at == {j \in 1..Len(lines) : labelKind(lines[j]) = kind}
      from == CHOOSE j \in at : \A k \in at : j <= k
      later == {j \in (from + 1)..Len(lines) : labelKind(lines[j]) # "none"}
      to == IF later = {} THEN Len(lines) + 1
            ELSE CHOOSE j \in later : \A k \in later : j <= k
  IN IF at = {} THEN 0
     ELSE Cardinality({j \in (from + 1)..(to - 1) :
                         lines[j] # <<>> /\ lines[j][1] = "- "})

\* C27: a non-null result starts with the open marker and ends with the
\* close marker; between them it has, in the order activity, knowledge,
\* project, the sections that are not empty, with one bullet line per
\* session and one bullet line per knowledge match.
C27_BlockLayout ==
  (res.fn = "buildContext" /\ ~res.null) =>
    /\ res.text[1] = OpenMarker
    /\ res.text[Len(res.text)] = CloseMarker
    /\ sectionsOf(inner(res.text))
         = expectedSections(arg.sessions, arg.kbResults)
    /\ bulletsOf(inner(res.text), "activity") = Len(arg.sessions)
    /\ bulletsOf(inner(res.text), "knowledge") = Len(arg.kbResults)

\* ------------------------------------------------------------------------
\* Properties of extractSearchKeywords
\* ------------------------------------------------------------------------
\* C28: for a non-empty prompt and a count N, extractSearchKeywords returns
\* at least one term and at most N terms, and no term twice.
C28_KeywordCount ==
  (res.fn = "extractSearchKeywords" /\ arg.prompt # <<>>) =>
    /\ Len(res.out) >= 1
    /\ Len(res.out) <= arg.count
    /\ \A j, k \in 1..Len(res.out) : j # k => res.out[j] # res.out[k]

\* a prompt with a keyword in two spellings and another keyword gave two
\* terms for a count of two
C28_Witness ==
  /\ res.fn = "extractSearchKeywords"
  /\ arg.count = 2
  /\ Len(wordsOf(arg.prompt)) = 3
  /\ wordsOf(arg.prompt)[1] = wordsOf(arg.prompt)[2]
  /\ Len(res.out) = 2

\* the whitespace-delimited tokens of the raw prompt
rawTokens(prompt) ==
  LET parts == split(prompt)
      RECURSIVE nonEmpty(_)
      nonEmpty(ps) == IF ps = <<>> THEN <<>>
                      ELSE IF Head(ps) # <<>>
                      THEN <<Head(ps)>> \o nonEmpty(Tail(ps))
                      ELSE nonEmpty(Tail(ps))
  IN nonEmpty(parts)

\* C29 as stated: when no token survives the filter, the result is exactly
\* the first whitespace-delimited token of the raw prompt.
C29_FallbackIsFirstToken ==
  (res.fn = "extractSearchKeywords" /\ wordsOf(arg.prompt) = <<>>) =>
    /\ rawTokens(arg.prompt) # <<>>
    /\ res.out = <<rawTokens(arg.prompt)[1]>>

\* C29, amended: when no token survives the filter, the result is exactly
\* the first whitespace-delimited token of the raw prompt, or the raw prompt
\* itself when it has no token; it is never the empty list.
C29_FallbackIsFirstTokenOrPrompt ==
  (res.fn = "extractSearchKeywords" /\ wordsOf(arg.prompt) = <<>>) =>
    res.out = <<IF rawTokens(arg.prompt) # <<>>
                THEN rawTokens(arg.prompt)[1] ELSE arg.prompt>>

\* a prompt of stop-words only, with a leading space and a capital, gave its
\* first raw token
C29_Witness ==
  /\ res.fn = "extractSearchKeywords"
  /\ wordsOf(arg.prompt) = <<>>
  /\ Len(rawTokens(arg.prompt)) = 2
  /\ arg.prompt[1] = " "
  /\ res.out = <<<<"T", "h", "e">>>>

\* ------------------------------------------------------------------------
\* Properties of a query whose subprocess outlives its ceiling
\* ------------------------------------------------------------------------
\* the query has returned the fallback's [] and run() is still pending
abandonedRun ==
  /\ res.fn \in QueryFns
  /\ res.run = "pending"
  /\ res.timer = "fired"

\* C30: when run() settles, with any outcome, after withTimeout returned the
\* fallback, the step changes neither what the query returned, nor the
\* session memo, nor an entry of the fast tier or of the persisted tier.
C30_AbandonedRunHasNoEffect ==
  [][(abandonedRun /\ res'.run # "pending") =>
       /\ res'.out = res.out
       /\ sessionCache' = sessionCache
       /\ cache' = cache
       /\ disk' = disk]_vars

\* run() of fetchRecentSessions exited with code 0 after the timer fired:
\* the query had returned [] and the memo is still empty
C30_Witness ==
  /\ res.fn = "fetchRecentSessions"
  /\ res.timer = "fired"
  /\ res.run = "zero"
  /\ res.out = "empty"
  /\ sessionCache = NullContext

\* ------------------------------------------------------------------------
\* Properties of the fan-out of flushes, sessions queries and searches
\* ------------------------------------------------------------------------
\* the flushL2 calls of namespace ns that instance i has in flight
flushesOf(i, ns) == {n \in 1..Len(flights[i]) : flights[i][n].ns = ns}

\* C31: within one cache instance at most one flushL2 of a namespace is in
\* flight at any time.
C31_OneFlushInFlight ==
  \A i \in Instances, ns \in CacheNamespace :
    Cardinality(flushesOf(i, ns)) <= 1

\* C32: every buildContext call eventually returns a block or null.
C32_BuildContextReturns ==
  \A b \in 1..MaxCalls :
    (builds[b].pc \in {"access", "queries"})
      ~> (built.result \in {"block", "null"})

\* ------------------------------------------------------------------------
\* Properties of the session memo
\* ------------------------------------------------------------------------
\* C33: the sessions a buildContext call at depth D lists were obtained with
\* the limit and the window of D.
C33_SessionsFetchedWithOwnDepth ==
  (built.result = "block" /\ built.sessData > 0) =>
    built.sessArgs = queryArgs(built.depth)

\* call b gets the answer of ensureInstalled and goes on to its queries
reachesQueries(b) == builds[b].pc = "access" /\ builds'[b].pc = "queries"

\* C34: a call that finds a memo written less than 60 seconds ago starts
\* no sessions query and takes the memoized list; a call that finds no memo,
\* or one of 60 seconds or more, starts the query; and the query behind a
\* list that is reused was started after the last invalidateCache().
C34_MemoReusedFor60s ==
  [][\A b \in 1..MaxCalls : reachesQueries(b) =>
       /\ (sessionCache # NullContext
           /\ now - sessionCache.fetchedAt < CACHE_TTL_MS) =>
            /\ builds'[b].sess = "resolved"
            /\ builds'[b].sessData = sessionCache.sessions
       /\ (sessionCache = NullContext
           \/ now - sessionCache.fetchedAt >= CACHE_TTL_MS) =>
            builds'[b].sess = "pending"
       /\ builds'[b].sess = "resolved" =>
            sessionCache.asked >= lastInval]_vars

\* C37: a buildContext call started after the last invalidateCache() lists
\* no sessions whose query was started before that invalidation.
C37_InvalidationNotUndone ==
  (built.result = "block" /\ built.sessData > 0
   /\ built.start >= lastInval) =>
    built.sessAsked >= lastInval

\* ------------------------------------------------------------------------
\* Properties of the order of the keywords
\* ------------------------------------------------------------------------
\* C35: extractSearchKeywords returns its keywords in non-increasing order
\* of length.
C35_LongestFirst ==
  res.fn = "extractSearchKeywords" =>
    \A j, k \in 1..Len(res.out) :
      j < k => Len(res.out[j]) >= Len(res.out[k])

\* ------------------------------------------------------------------------
\* Properties of the dirty set
\* ------------------------------------------------------------------------
\* C36: between two tasks of the event loop, every namespace in l2Dirty has
\* an entry in l2Timers whose timeout is pending.
C36_DirtyHasTimer ==
  \A i \in Instances :
    /\ cache[i].l2Dirty \subseteq cache[i].l2Timers
    /\ \A ns \in cache[i].l2Dirty : cache[i].armed[ns] >= 1

\* kb was set again while its flush is in flight: it is dirty and a new
\* timer is pending for it
C36_Witness ==
  /\ "kb" \in cache["A"].l2Dirty
  /\ "kb" \in cache["A"].l2Timers
  /\ cache["A"].armed["kb"] = 1
  /\ flushesOf("A", "kb") # {}

\* ------------------------------------------------------------------------
\* Properties of failed lookups
\* ------------------------------------------------------------------------
\* C38: a sessions fetch that times out, exits non-zero or prints what does
\* not parse yields an empty list and leaves the session memo as it was; a
\* knowledge search that ends with nothing found, or rejected, leaves the
\* cache as it was.
C38_FailedLookupLeavesCaches ==
  [][\A b \in 1..MaxCalls :
       /\ \A o \in {"timeout", "nonzero", "garbage"} :
            FetchRecentSessionsDone(b, o) =>
              /\ sessionCache' = sessionCache
              /\ builds[b].pc = "queries" => builds'[b].sessData = 0
       /\ (builds[b].pc = "queries" /\ builds[b].kb = "search"
           /\ \/ builds'[b].kb = "resolved" /\ builds'[b].kbData = 0
              \/ builds'[b].kb = "rejected") =>
            /\ cache' = cache
            /\ disk' = disk]_vars

\* a call with a prompt of substance returned null after one of its
\* subprocess calls timed out: no memo and no kb entry were written
C38_Witness ==
  /\ built.result = "null"
  /\ built.timedOut
  /\ built.prompt = "x"
  /\ built.depth = "standard"
  /\ sessionCache = NullContext
  /\ ~Present(cache[getCache].l1[cacheKey("kb", "x")])
  /\ cache[getCache].l2Dirty = {}

\* ------------------------------------------------------------------------
\* Properties of the lifetime of a value
\* ------------------------------------------------------------------------
\* C39: a value set once and never set again is, from some moment on,
\* absent for get in both tiers.
C39_ValueExpires ==
  <>[](~Present(Readable("A", "sessions", md5["x"])))

\* ------------------------------------------------------------------------
\* Properties of the fan-out of buildContext
\* ------------------------------------------------------------------------
\* C40: a buildContext call starts nothing before ensureInstalled has
\* answered yes; it starts its sessions query at most once, at that step;
\* it starts knowledge searches once, after cache.get found nothing, and at
\* most three of them; it starts none when the cache answers.
C40_FanOutBounded ==
  [][\A b \in 1..MaxCalls :
       /\ builds[b].pc = "access" =>
            /\ builds[b].sess = "none"
            /\ builds[b].kb = "none"
            /\ builds[b].kbLeft = 0
       /\ EnsureInstalled(b, FALSE) =>
            /\ builds'[b].sess = "none"
            /\ builds'[b].kbLeft = 0
       /\ (builds[b].sess # "pending" /\ builds'[b].sess = "pending") =>
            reachesQueries(b)
       /\ builds'[b].kbLeft > builds[b].kbLeft =>
            /\ builds[b].pc = "queries"
            /\ builds[b].kb = "get"
            /\ builds[b].kbLeft = 0
            /\ builds'[b].kbLeft <= 3
       /\ (builds[b].kb \in {"none", "get"}
           /\ builds'[b].kb = "resolved") =>
            builds'[b].kbLeft = 0]_vars

\* a call has its sessions query and three knowledge searches in flight
C40_Witness ==
  \E b \in 1..MaxCalls :
    /\ builds[b].pc = "queries"
    /\ builds[b].sess = "pending"
    /\ builds[b].kb = "search"
    /\ builds[b].kbLeft = 3

====
